---- MODULE Spec2Model ----
(***************************************************************************)
(* Model of the wait/notification coordinator (RMW_Connext_WaitSet) of     *)
(* rmw_connextdds_common/src/common/rmw_impl.cpp.                          *)
(*                                                                         *)
(* Atomicity: a step is one critical section of the code (one region       *)
(* executed under the wait-set mutex or under one condition's mutex), one  *)
(* call of WaitSet::detach(), or one return of the engine's blocking wait. *)
(* Threads block on state_cond and are woken by notify_all only.           *)
(***************************************************************************)
EXTENDS Integers, Sequences, FiniteSets, TLC

\* ------------------------------------------------------------------ bounds
MaxWaits == 2      \* wait() calls per behaviour
MaxReq == 2        \* sources passed to one wait() call
MaxEvents == 1     \* destructions, environment changes and engine failures
                   \* per behaviour

\* ---------------------------------------------------------------- universe
NULL == "NULL"
Waitsets == {"W1", "W2"}
Threads == {"t1", "t2"}
KindSet == {"subs", "gcs", "cls", "srvs", "evs"}
Universe ==
  [subs |-> {"s1", "s2"}, gcs |-> {"g1"}, cls |-> {},
   srvs |-> {"v1"}, evs |-> {"e1"}]
Publishers == {"p1"}
DataSources == Universe["subs"] \cup Universe["cls"] \cup Universe["srvs"]
\* entities that own a condition (a reader, a writer or a guard condition)
Conds == DataSources \cup Universe["gcs"] \cup Publishers

\* RMW_Connext_Event::condition(): e1 is a status event of publisher p1
EventCondition(e) == "p1"

\* the condition a source of kind k is waited through
CondOf(k, x) == IF k = "evs" THEN EventCondition(x) ELSE x

FREE == "FREE"
ACQUIRING == "ACQUIRING"
BLOCKED == "BLOCKED"
RELEASING == "RELEASING"
INVALIDATING == "INVALIDATING"
WaitSetStates == {FREE, ACQUIRING, BLOCKED, RELEASING, INVALIDATING}

RET_OK == "OK"
RET_ERROR == "ERROR"
RET_TIMEOUT == "TIMEOUT"

InjSeqs(S) ==
  UNION {{q \in [1..n -> S] : \A i, j \in 1..n : i # j => q[i] # q[j]} :
         n \in 0..Cardinality(S)}

TotalLen(r) ==
  Len(r["subs"]) + Len(r["gcs"]) + Len(r["cls"]) + Len(r["srvs"]) + Len(r["evs"])

\* the five caller-supplied arrays of one wait() call (an empty sequence is
\* a null or zero-count array)
Requests ==
  {r \in [subs : InjSeqs(Universe["subs"]), gcs : InjSeqs(Universe["gcs"]),
          cls : InjSeqs(Universe["cls"]), srvs : InjSeqs(Universe["srvs"]),
          evs : InjSeqs(Universe["evs"])] : TotalLen(r) <= MaxReq}

EmptyLists == [subs |-> <<>>, gcs |-> <<>>, cls |-> <<>>, srvs |-> <<>>, evs |-> <<>>]

\* the timeout argument: inside the range DDS_Duration_t can hold, or not (an
\* infinite timeout behaves as a finite one that has not expired yet)
Timeouts == {"finite", "overflow"}

VARIABLES
  state,                \* [Waitsets -> WaitSetStates]
  attached,             \* [Waitsets -> five lists]
  attached_events_cache,\* [Waitsets -> set of cached events]
  native,               \* [Waitsets -> set of conds in the DDS_WaitSet]
  active_conditions,    \* [Waitsets -> set of conds returned by the engine]
  attached_waitset,     \* [Conds -> Waitsets \cup {NULL}]
  deleted,              \* [Conds -> BOOLEAN]
  alive,                \* [Conds -> BOOLEAN]   entity not yet deleted
  marked_blocked,       \* history: conditions marked deleted while a wait-set
                        \* listing them was BLOCKED
  trigger_value,        \* [guard conditions -> BOOLEAN]
  has_data,             \* [DataSources -> BOOLEAN]
  status_active,        \* [events -> BOOLEAN]
  pc,                   \* [Threads -> position in wait/invalidate/finalize]
  tw, req, arr,         \* wait(): the wait-set, the arrays as passed and as
                        \* they are now
  cur, wait_rc, probe,  \* attach() cursor, engine return code, number of
                        \* condition operations made by this wait()
  ctx, inv_ws, inv_c, inv_ret, fin,  \* invalidate(): caller, wait-set,
                        \* condition, result; finalize(): the entity
  last,                 \* the wait() call that returned last: [w, ret, arr]
  notified,             \* threads woken by a broadcast on state_cond
  waits, events,
  emulate,              \* build option RMW_CONNEXT_EMULATE_REQUESTREPLY
  engine,               \* [Endpoints -> parts the engine holds for it]
  heap,                 \* endpoints whose RMW publisher/subscriber object
                        \* is allocated
  impl,                 \* [Entities -> "none" | "live" | "null" | "gone"]
  matched,              \* pairs <<writer, reader>> matched by discovery
  cache,                \* [Endpoints -> samples held by the reader]
  next_request_id,      \* [Clients -> counter of the emulated build]
  writer_sn,            \* [Clients -> last number the engine gave a write]
  pending,              \* [Services -> requests taken and not answered]
  sent,                 \* [Clients -> handles returned by send_request]
  answered,             \* replies written by send_response
  result,               \* what the last client/service call returned
  steps,                \* client/service calls, failures and discovery
                        \* events so far
  triggers,             \* trigger calls made between wait() calls
  lk_state,             \* the state of the wait-set whose mutex is followed
  lk_fn, lk_pc,         \* [Threads -> function and statement it is at]
  held,                 \* [mutex -> thread holding it, or NULL]
  lk_parked,            \* threads asleep in state_cond.wait()
  owed,                 \* [Threads -> state written, no broadcast yet]
  history,              \* the samples that arrived at the reader, in order
  loaned,               \* how many of them the subscriber has taken on loan
  loan_len, loan_next,  \* length of the current loan, next sample to look at
  data_available,       \* the flag of the subscriber's status condition
  delivered,            \* positions in history of the samples delivered
  took,                 \* what the last take_next call was given and returned
  wait_timeout,         \* [Threads -> the timeout the wait() was called with]
  wait_duration         \* [Threads -> the duration DDS_WaitSet_wait was given]

wsvars == <<state, attached, attached_events_cache, native, active_conditions>>
condvars == <<attached_waitset, deleted, alive, marked_blocked>>
envvars == <<trigger_value, has_data, status_active>>
callvars == <<tw, req, arr, cur, wait_rc, probe>>
invvars == <<ctx, inv_ws, inv_c, inv_ret, fin>>
coordvars == <<wsvars, condvars, envvars, pc, callvars, invvars, last, notified, waits, events>>
epvars == <<emulate, engine, heap, impl, matched, cache, next_request_id,
            writer_sn, pending, sent, answered, result, steps>>
lockvars == <<lk_state, lk_fn, lk_pc, held, lk_parked, owed>>
loanvars == <<history, loaned, loan_len, loan_next, data_available, delivered, took>>
timevars == <<wait_timeout, wait_duration>>
vars == <<coordvars, epvars, triggers, lockvars, loanvars, timevars>>

\* ------------------------------------------------------------------ helpers
Range(q) == {q[i] : i \in 1..Len(q)}

\* an is_attached that finds every condition in the lists
is_attached_always(w, cond) == TRUE

\* RMW_Connext_WaitSet::is_attached
is_attached(w, cond) ==
  \E k \in KindSet : \E i \in 1..Len(attached[w][k]) :
    CondOf(k, attached[w][k][i]) = cond

\* condition c is listed by a wait-set or asked for by a wait() in progress
InUse(c) ==
  \/ \E w \in Waitsets : is_attached(w, c)
  \/ \E t \in Threads : \E k \in KindSet : \E i \in 1..Len(req[t][k]) :
       CondOf(k, req[t][k][i]) = c

\* require_attach that always asks for a refresh
require_attach_always(attached_els, new_els) == TRUE

\* RMW_Connext_WaitSet::require_attach: null or zero-count array against the
\* attached vector, then sizes, then a positional comparison of the pointers
require_attach(attached_els, new_els) ==
  IF Len(new_els) = 0 THEN Len(attached_els) > 0
  ELSE IF Len(new_els) # Len(attached_els) THEN TRUE
  ELSE \E i \in 1..Len(new_els) : attached_els[i] # new_els[i]

\* the refresh_attach flag of RMW_Connext_WaitSet::attach
refresh_attach(w, r) ==
  \E k \in KindSet : require_attach(attached[w][k], r[k])

Tag(ph, k, s) == [i \in 1..Len(s) |-> [ph |-> ph, k |-> k, x |-> s[i]]]

\* the order in which RMW_Connext_WaitSet::attach visits the requested
\* sources: events (reset), subscriptions, clients, services, events (attach),
\* guard conditions
AttachPlan(r) ==
  Tag(1, "evs", r["evs"]) \o Tag(2, "subs", r["subs"]) \o Tag(3, "cls", r["cls"]) \o
  Tag(4, "srvs", r["srvs"]) \o Tag(5, "evs", r["evs"]) \o Tag(6, "gcs", r["gcs"])

\* threads parked on the state_cond of wait-set w
Parked(w) ==
  {u \in Threads : \/ pc[u] = "enter_blocked" /\ tw[u] = w
                   \/ pc[u] = "inv_block" /\ inv_ws[u] = w}

\* RMW_Connext_Condition::detach for every condition listed by w: the
\* back-reference is cleared, and the native condition leaves the DDS
\* wait-set unless the engine rejects the call (conds in F)
DetachBackrefs(w) ==
  [c \in Conds |-> IF is_attached(w, c) THEN NULL ELSE attached_waitset[c]]

DetachNative(w, F) ==
  [v \in Waitsets |->
     native[v] \ {c \in Conds : is_attached(w, c) /\ attached_waitset[c] = v /\ c \notin F}]

\* conditions of w whose detach reaches the engine
Detachable(w) == {c \in Conds : is_attached(w, c) /\ attached_waitset[c] # NULL}

\* the engine calls that may fail in one step
FaultSets(S) == {F \in SUBSET S : Cardinality(F) <= MaxEvents - events}

\* a detach() that stops after the subscribers
detach_subscribers_only(w, F) ==
  /\ attached' = [attached EXCEPT ![w]["subs"] = <<>>]
  /\ attached_events_cache' = attached_events_cache
  /\ attached_waitset' =
       [c \in Conds |-> IF c \in Range(attached[w]["subs"]) THEN NULL
                        ELSE attached_waitset[c]]
  /\ native' = [native EXCEPT ![w] = @ \ (Range(attached[w]["subs"]) \ F)]
  /\ events' = events + Cardinality(F)

\* RMW_Connext_WaitSet::detach: every listed condition is detached, the five
\* lists and the event cache are cleared
detach(w, F) ==
  /\ attached' = [attached EXCEPT ![w] = EmptyLists]
  /\ attached_events_cache' = [attached_events_cache EXCEPT ![w] = {}]
  /\ attached_waitset' = DetachBackrefs(w)
  /\ native' = DetachNative(w, F)
  /\ events' = events + Cardinality(F)

InitWaitSets ==
  /\ state = [w \in Waitsets |-> FREE]
  /\ attached = [w \in Waitsets |-> EmptyLists]
  /\ attached_events_cache = [w \in Waitsets |-> {}]
  /\ native = [w \in Waitsets |-> {}]
  /\ active_conditions = [w \in Waitsets |-> {}]
  /\ attached_waitset = [c \in Conds |-> NULL]
  /\ deleted = [c \in Conds |-> FALSE]
  /\ alive = [c \in Conds |-> TRUE]
  /\ marked_blocked = {}
  /\ trigger_value = [g \in Universe["gcs"] |-> FALSE]
  /\ has_data = [x \in DataSources |-> FALSE]
  /\ status_active = [e \in Universe["evs"] |-> FALSE]
  /\ pc = [t \in Threads |-> "idle"]
  /\ tw = [t \in Threads |-> "W1"]
  /\ req = [t \in Threads |-> EmptyLists]
  /\ arr = [t \in Threads |-> EmptyLists]
  /\ cur = [t \in Threads |-> 1]
  /\ wait_rc = [t \in Threads |-> "NONE"]
  /\ probe = [t \in Threads |-> 0]
  /\ ctx = [t \in Threads |-> "none"]
  /\ inv_ws = [t \in Threads |-> "W1"]
  /\ inv_c = [t \in Threads |-> "s1"]
  /\ inv_ret = [t \in Threads |-> "NONE"]
  /\ fin = [t \in Threads |-> "s1"]
  /\ last = [w |-> "W1", ret |-> "NONE", arr |-> EmptyLists]
  /\ notified = {}
  /\ waits = 0
  /\ events = 0
  /\ triggers = 0
  /\ lk_state = FREE
  /\ lk_fn = [t \in Threads |-> "idle"]
  /\ lk_pc = [t \in Threads |-> 1]
  /\ held = [m \in {"ws", "cond"} |-> NULL]
  /\ lk_parked = {}
  /\ owed = [t \in Threads |-> FALSE]
  /\ history = <<>>
  /\ loaned = 0
  /\ loan_len = 0
  /\ loan_next = 0
  /\ data_available = FALSE
  /\ delivered = <<>>
  /\ took = [op |-> "none", max_samples |-> 0, taken |-> <<>>, rc |-> RET_OK,
            has_data |-> FALSE]
  /\ wait_timeout = [t \in Threads |-> [null |-> TRUE, sec |-> <<0, 0, 0, 0>>,
                                         nsec |-> <<0, 0, 0, 0>>]]
  /\ wait_duration = [t \in Threads |-> [given |-> FALSE, sec |-> <<0, 0>>,
                                          nanosec |-> <<0, 0>>]]

\* ------------------------------------------------------------------ wait()
\* threads are interchangeable executors: a call is given to t1 unless t1 is
\* busy
StartOK(t) == pc[t] = "idle" /\ (t = "t1" \/ pc["t1"] # "idle")

\* the locals of a wait() call are given up when it returns
ClearCall(t) ==
  /\ tw' = [tw EXCEPT ![t] = "W1"]
  /\ req' = [req EXCEPT ![t] = EmptyLists]
  /\ arr' = [arr EXCEPT ![t] = EmptyLists]
  /\ cur' = [cur EXCEPT ![t] = 1]
  /\ wait_rc' = [wait_rc EXCEPT ![t] = "NONE"]
  /\ probe' = [probe EXCEPT ![t] = 0]

ClearInv(t) ==
  /\ ctx' = [ctx EXCEPT ![t] = "none"]
  /\ inv_ws' = [inv_ws EXCEPT ![t] = "W1"]
  /\ inv_c' = [inv_c EXCEPT ![t] = "s1"]
  /\ inv_ret' = [inv_ret EXCEPT ![t] = "NONE"]
  /\ fin' = [fin EXCEPT ![t] = "s1"]

\* wait() returns rc to its caller, whose arrays are now a
Return(t, rc, a) ==
  /\ last' = [w |-> tw[t], ret |-> rc, arr |-> a]
  /\ pc' = [pc EXCEPT ![t] = "idle"]
  /\ ClearCall(t)

\* an entry switch that takes a BLOCKED wait-set as available
EnterCase_blocked_free(st) ==
  IF st \in {FREE, BLOCKED} THEN "acquire"
  ELSE IF st = INVALIDATING THEN "park"
  ELSE "reject"

\* the state found by wait() at entry, and what the call does next
EnterCase(st) ==
  IF st = FREE THEN "acquire"
  ELSE IF st = INVALIDATING THEN "park"
  ELSE "reject"

\* RMW_Connext_WaitSet::wait, the entry critical section. The wait-sets are
\* interchangeable and meet only in a condition they share: the first call is
\* made on W1, and W2 is waited on for a condition that is in use
WaitEnter(t, w, r) ==
  /\ StartOK(t)
  /\ waits < MaxWaits
  /\ w = "W1" \/ \E k \in KindSet : \E i \in 1..Len(r[k]) : InUse(CondOf(k, r[k][i]))
  /\ \A k \in KindSet : \A i \in 1..Len(r[k]) : alive[CondOf(k, r[k][i])]
  /\ waits' = waits + 1
  /\ \/ /\ EnterCase(state[w]) = "acquire"
        /\ state' = [state EXCEPT ![w] = ACQUIRING]
        /\ pc' = [pc EXCEPT ![t] = "attach"]
        /\ notified' = notified \cup Parked(w)
        /\ tw' = [tw EXCEPT ![t] = w]
        /\ req' = [req EXCEPT ![t] = r]
        /\ arr' = [arr EXCEPT ![t] = r]
        /\ UNCHANGED last
     \/ /\ EnterCase(state[w]) = "park"
        /\ pc' = [pc EXCEPT ![t] = "enter_blocked"]
        /\ notified' = notified \ {t}
        /\ tw' = [tw EXCEPT ![t] = w]
        /\ req' = [req EXCEPT ![t] = r]
        /\ arr' = [arr EXCEPT ![t] = r]
        /\ UNCHANGED <<state, last>>
     \/ /\ EnterCase(state[w]) = "reject"
        /\ last' = [w |-> w, ret |-> RET_ERROR, arr |-> r]
        /\ UNCHANGED <<state, pc, notified, tw, req, arr>>
  /\ UNCHANGED <<attached, attached_events_cache, native, active_conditions,
                 condvars, envvars, cur, wait_rc, probe, invvars, events>>
  /\ UNCHANGED <<epvars, triggers, lockvars, loanvars, timevars>>

\* a wait() that fails after state_cond.wait() whatever the state is
WaitEnterWake_always_error(t) ==
  /\ pc[t] = "enter_blocked"
  /\ t \in notified
  /\ Return(t, RET_ERROR, arr[t])
  /\ notified' = notified \ {t}
  /\ UNCHANGED state
  /\ UNCHANGED <<attached, attached_events_cache, native, active_conditions,
                 condvars, envvars, invvars, waits, events>>
  /\ UNCHANGED <<epvars, triggers, lockvars, loanvars, timevars>>

\* wait() resumes after state_cond.wait(): already_taken = (FREE != state)
WaitEnterWake(t) ==
  /\ pc[t] = "enter_blocked"
  /\ t \in notified
  /\ IF state[tw[t]] = FREE
     THEN /\ state' = [state EXCEPT ![tw[t]] = ACQUIRING]
          /\ pc' = [pc EXCEPT ![t] = "attach"]
          /\ notified' = (notified \ {t}) \cup (Parked(tw[t]) \ {t})
          /\ UNCHANGED <<last, callvars>>
     ELSE /\ Return(t, RET_ERROR, arr[t])
          /\ notified' = notified \ {t}
          /\ UNCHANGED state
  /\ UNCHANGED <<attached, attached_events_cache, native, active_conditions,
                 condvars, envvars, invvars, waits, events>>
  /\ UNCHANGED <<epvars, triggers, lockvars, loanvars, timevars>>

\* an error return that does not give the wait-set back
ErrorExit_keep_state(t) ==
  /\ UNCHANGED <<state, notified>>
  /\ pc' = [pc EXCEPT ![t] = "exit_detach"]

\* an error return of wait(): scope_exit is declared after scope_exit_detach
\* and therefore runs first: the state goes back to FREE (with a broadcast)
\* before the conditions are detached
ErrorExit(t) ==
  /\ state' = [state EXCEPT ![tw[t]] = FREE]
  /\ notified' = notified \cup Parked(tw[t])
  /\ pc' = [pc EXCEPT ![t] = "exit_detach"]

\* scope_exit_detach: detach() run on an error return of wait()
ExitDetach(t) ==
  /\ pc[t] = "exit_detach"
  /\ \E F \in FaultSets(Detachable(tw[t])) : detach(tw[t], F)
  /\ Return(t, RET_ERROR, arr[t])
  /\ UNCHANGED <<state, active_conditions, deleted, alive, marked_blocked, envvars,
                 invvars, notified, waits>>
  /\ UNCHANGED <<epvars, triggers, lockvars, loanvars, timevars>>

\* RMW_Connext_Condition::attach: fails when the condition is attached to a
\* different wait-set, does nothing when it is attached to this one
Condition_attach_rc(bw, w) == IF bw # NULL /\ bw # w THEN RET_ERROR ELSE RET_OK

\* a read of a member of a condition whose entity has been deleted is a read
\* of freed memory: any value g may be seen
DeletedRead(c, g) == IF alive[c] THEN deleted[c] ELSE g

\* RMW_Connext_WaitSet::attach, from require_attach to the detach() of the
\* previously attached conditions
AttachBegin(t) ==
  /\ pc[t] = "attach"
  /\ IF ~refresh_attach(tw[t], req[t])
     THEN /\ pc' = [pc EXCEPT ![t] = "pre_block"]
          /\ UNCHANGED <<state, attached, attached_events_cache, native,
                         attached_waitset, events, probe, notified>>
     ELSE \E F \in FaultSets(Detachable(tw[t])) :
            /\ detach(tw[t], F)
            /\ probe' = [probe EXCEPT ![t] = @ + TotalLen(attached[tw[t]])]
            /\ IF F # {}
               THEN ErrorExit(t)
               ELSE /\ pc' = [pc EXCEPT ![t] =
                               IF Len(AttachPlan(req[t])) = 0 THEN "pre_block"
                               ELSE "attach_elem"]
                    /\ UNCHANGED <<state, notified>>
  /\ UNCHANGED <<active_conditions, deleted, alive, marked_blocked, envvars, tw, req, arr,
                 cur, wait_rc, invvars, last, waits>>
  /\ UNCHANGED <<epvars, triggers, lockvars, loanvars, timevars>>

\* number of condition operations attach() performs on one element, by phase:
\* reset; reset+enable+attach; enable+attach; attach
PhaseOps(ph) == IF ph = 1 THEN 1 ELSE IF ph \in {2, 3, 4} THEN 3 ELSE IF ph = 5 THEN 2 ELSE 1

\* RMW_Connext_WaitSet::attach, the critical section under the condition's
\* mutex for one requested element; det is the local flag "detached"
AttachLocked(t, it, det) ==
  LET w == tw[t]
      c == CondOf(it.k, it.x)
      bw == IF det THEN NULL ELSE attached_waitset[c]
      final == cur[t] = Len(AttachPlan(req[t]))
  IN
  \E g \in BOOLEAN, f \in BOOLEAN :
    /\ alive[c] => ~g
    /\ f => events < MaxEvents /\ ~DeletedRead(c, g)
    /\ events' = IF f THEN events + 1 ELSE events
    /\ IF DeletedRead(c, g)
       THEN /\ ErrorExit(t)
            /\ UNCHANGED <<attached, attached_events_cache, native,
                           attached_waitset, probe, cur>>
       ELSE IF f \/ (it.ph # 1 /\ Condition_attach_rc(bw, w) = RET_ERROR)
       THEN /\ ErrorExit(t)
            /\ attached_waitset' = [attached_waitset EXCEPT ![c] = bw]
            /\ probe' = [probe EXCEPT ![t] = @ + 1]
            /\ UNCHANGED <<attached, attached_events_cache, native, cur>>
       ELSE /\ probe' = [probe EXCEPT ![t] = @ + PhaseOps(it.ph)]
            /\ cur' = [cur EXCEPT ![t] = @ + 1]
            /\ pc' = [pc EXCEPT ![t] = IF final THEN "pre_block" ELSE "attach_elem"]
            /\ UNCHANGED <<state, notified>>
            /\ IF it.ph = 1
               THEN /\ attached_waitset' = [attached_waitset EXCEPT ![c] = bw]
                    /\ UNCHANGED <<attached, attached_events_cache, native>>
               ELSE /\ attached_waitset' = [attached_waitset EXCEPT ![c] = w]
                    /\ native' = [native EXCEPT ![w] = @ \cup {c}]
                    /\ attached' = [attached EXCEPT ![w][it.k] = Append(@, it.x)]
                    /\ attached_events_cache' =
                         IF it.ph = 5
                         THEN [attached_events_cache EXCEPT ![w] = @ \cup {it.x}]
                         ELSE attached_events_cache
  /\ UNCHANGED <<active_conditions, deleted, alive, marked_blocked, envvars, tw, req, arr,
                 wait_rc, last, waits>>

\* RMW_Connext_WaitSet::attach, one requested element: the condition's
\* back-reference is read, and a condition attached to another wait-set is
\* first invalidated there
AttachElem(t) ==
  /\ pc[t] = "attach_elem"
  /\ LET it == AttachPlan(req[t])[cur[t]]
         c == CondOf(it.k, it.x)
         otherws == attached_waitset[c]
     IN IF it.ph # 5 /\ otherws # NULL /\ otherws # tw[t]
        THEN /\ pc' = [pc EXCEPT ![t] = "inv_enter"]
             /\ inv_ws' = [inv_ws EXCEPT ![t] = otherws]
             /\ inv_c' = [inv_c EXCEPT ![t] = c]
             /\ ctx' = [ctx EXCEPT ![t] = "attach"]
             /\ UNCHANGED <<wsvars, condvars, envvars, callvars, inv_ret, fin,
                            last, notified, waits, events>>
        ELSE AttachLocked(t, it, FALSE) /\ UNCHANGED invvars
  /\ UNCHANGED <<epvars, triggers, lockvars, loanvars, timevars>>

\* RMW_Connext_WaitSet::attach resumes after otherws->invalidate(cond), whose
\* result is not looked at (detached = true)
AttachAfterInvalidate(t) ==
  /\ pc[t] = "attach_locked"
  /\ AttachLocked(t, AttachPlan(req[t])[cur[t]], TRUE)
  /\ ClearInv(t)
  /\ UNCHANGED <<epvars, triggers, lockvars, loanvars, timevars>>

\* RMW_Connext_WaitSet::wait between attach() and the engine call: the
\* condition sequence is resized, the timeout converted, the state becomes
\* BLOCKED
PreBlock(t) ==
  /\ pc[t] = "pre_block"
  /\ \/ /\ events < MaxEvents
        /\ events' = events + 1
        /\ ErrorExit(t)
     \/ \E o \in Timeouts :
          /\ UNCHANGED events
          /\ IF o = "overflow"
             THEN ErrorExit(t)
             ELSE /\ state' = [state EXCEPT ![tw[t]] = BLOCKED]
                  /\ notified' = notified \cup Parked(tw[t])
                  /\ pc' = [pc EXCEPT ![t] = "blocked"]
  /\ UNCHANGED <<attached, attached_events_cache, native, active_conditions,
                 condvars, envvars, callvars, invvars, last, waits>>
  /\ UNCHANGED <<epvars, triggers, lockvars, loanvars, timevars>>

\* trigger value of the native condition of c in the engine
EngineTrigger(c) ==
  /\ alive[c]
  /\ \/ c \in Universe["gcs"] /\ trigger_value[c]
     \/ c \in DataSources /\ has_data[c]
     \/ \E e \in Universe["evs"] : EventCondition(e) = c /\ status_active[e]

EngineActive(w) == {c \in native[w] : EngineTrigger(c)}

\* DDS_WaitSet_wait returns; the state becomes RELEASING
WaitWake(t) ==
  /\ pc[t] = "blocked"
  /\ \/ /\ EngineActive(tw[t]) # {}
        /\ wait_rc' = [wait_rc EXCEPT ![t] = RET_OK]
        /\ active_conditions' = [active_conditions EXCEPT ![tw[t]] = EngineActive(tw[t])]
        /\ state' = [state EXCEPT ![tw[t]] = RELEASING]
        /\ notified' = notified \cup Parked(tw[t])
        /\ pc' = [pc EXCEPT ![t] = "process"]
        /\ UNCHANGED events
     \/ /\ EngineActive(tw[t]) = {}
        /\ wait_rc' = [wait_rc EXCEPT ![t] = RET_TIMEOUT]
        /\ active_conditions' = [active_conditions EXCEPT ![tw[t]] = {}]
        /\ state' = [state EXCEPT ![tw[t]] = RELEASING]
        /\ notified' = notified \cup Parked(tw[t])
        /\ pc' = [pc EXCEPT ![t] = "process"]
        /\ UNCHANGED events
     \/ /\ events < MaxEvents
        /\ events' = events + 1
        /\ wait_rc' = [wait_rc EXCEPT ![t] = RET_ERROR]
        /\ ErrorExit(t)
        /\ UNCHANGED active_conditions
  /\ UNCHANGED <<attached, attached_events_cache, native, condvars, envvars,
                 tw, req, arr, cur, probe, invvars, last, waits>>
  /\ UNCHANGED <<epvars, triggers, lockvars, loanvars, timevars>>

\* ---------------------------------------------------------- process_wait()
\* readiness of one attached source as process_wait() computes it: has_data()
\* for subscriptions, clients and services, active_condition() for guard
\* conditions, the status of the cached event otherwise; g is what a read of
\* a deleted entity yields
SourceReady(w, k, x, g) ==
  IF ~alive[CondOf(k, x)] THEN g
  ELSE IF k = "gcs" THEN x \in active_conditions[w]
  ELSE IF k = "evs" THEN status_active[x]
  ELSE has_data[x]

\* the loops of process_wait() that end with valid = valid && !...deleted
ValidCheckedKinds == {"subs", "gcs", "cls", "evs"}

\* a loop that removes the entries found not ready instead of nulling them
ProcessList_compact(w, k, a, g) ==
  SelectSeq(a, LAMBDA x : x \in Range(attached[w][k]) => SourceReady(w, k, x, g))

\* one loop of process_wait(): the i-th attached source decides the i-th
\* entry of the caller's array a
ProcessList(w, k, a, g) ==
  [i \in 1..Len(a) |->
     IF i <= Len(attached[w][k]) /\ ~SourceReady(w, k, attached[w][k][i], g)
     THEN NULL ELSE a[i]]

\* the flag valid at the end of process_wait()
ProcessValid(w, g) ==
  \A k \in ValidCheckedKinds : \A i \in 1..Len(attached[w][k]) :
    ~DeletedRead(CondOf(k, attached[w][k][i]), g)

\* guard conditions process_wait() calls reset_trigger() on
ActiveGuards(w) ==
  {x \in Range(attached[w]["gcs"]) : alive[x] /\ x \in active_conditions[w]}

\* a process_wait() that leaves the trigger values alone
ResetGuards_none(w) == trigger_value

\* the trigger values after the reset_trigger() calls of process_wait()
ResetGuards(w) ==
  [x \in Universe["gcs"] |-> IF x \in ActiveGuards(w) THEN FALSE ELSE trigger_value[x]]

\* the result of wait() after a successful process_wait()
WaitResult(rc) == IF rc = RET_TIMEOUT THEN RET_TIMEOUT ELSE RET_OK

\* a source listed by w whose entity has been deleted
DeadListed(w) ==
  \E k \in KindSet : \E i \in 1..Len(attached[w][k]) : ~alive[CondOf(k, attached[w][k][i])]

\* RMW_Connext_WaitSet::wait from process_wait() to the return (the sequence
\* active_conditions is not read again before the next DDS_WaitSet_wait
\* overwrites it: its content is dropped here)
WaitProcess(t) ==
  /\ pc[t] = "process"
  /\ \E g \in BOOLEAN, gd \in BOOLEAN, f \in BOOLEAN :
       LET w == tw[t]
           a == [k \in KindSet |-> ProcessList(w, k, arr[t][k], g)]
       IN /\ (g \/ gd) => DeadListed(w)
          /\ f => events < MaxEvents /\ ActiveGuards(w) # {}
          /\ events' = IF f THEN events + 1 ELSE events
          /\ trigger_value' = ResetGuards(w)
          /\ active_conditions' = [active_conditions EXCEPT ![w] = {}]
          /\ IF f \/ ~ProcessValid(w, gd)
             THEN /\ ErrorExit(t)
                  /\ arr' = [arr EXCEPT ![t] = a]
                  /\ UNCHANGED <<tw, req, cur, wait_rc, probe, last>>
             ELSE /\ Return(t, WaitResult(wait_rc[t]), a)
                  /\ state' = [state EXCEPT ![w] = FREE]
                  /\ notified' = notified \cup Parked(w)
  /\ UNCHANGED <<attached, attached_events_cache, native, condvars, has_data,
                 status_active, invvars, waits>>
  /\ UNCHANGED <<epvars, triggers, lockvars, loanvars, timevars>>

\* ------------------------------------------------------------ invalidate()
\* where a thread continues after WaitSet::invalidate returns
AfterInvalidate(t) == IF ctx[t] = "attach" THEN "attach_locked" ELSE "fin_delete"

\* an invalidate() that cleans up whenever no attach() is running
InvalidateEnter_unless_acquiring(t) ==
  /\ pc[t] = "inv_enter"
  /\ LET w == inv_ws[t] c == inv_c[t] IN
     IF ~is_attached(w, c)
     THEN /\ inv_ret' = [inv_ret EXCEPT ![t] = RET_OK]
          /\ pc' = [pc EXCEPT ![t] = AfterInvalidate(t)]
          /\ UNCHANGED <<state, notified>>
     ELSE IF state[w] # ACQUIRING
     THEN /\ state' = [state EXCEPT ![w] = INVALIDATING]
          /\ pc' = [pc EXCEPT ![t] = "inv_detach"]
          /\ UNCHANGED <<inv_ret, notified>>
     ELSE /\ pc' = [pc EXCEPT ![t] = "inv_block"]
          /\ notified' = notified \ {t}
          /\ UNCHANGED <<state, inv_ret>>
  /\ UNCHANGED <<attached, attached_events_cache, native, active_conditions,
                 condvars, envvars, callvars, ctx, inv_ws, inv_c, fin, last,
                 waits, events>>
  /\ UNCHANGED <<epvars, triggers, lockvars, loanvars, timevars>>

\* RMW_Connext_WaitSet::invalidate up to its first unlock, return or block
InvalidateEnter(t) ==
  /\ pc[t] = "inv_enter"
  /\ LET w == inv_ws[t] c == inv_c[t] IN
     IF ~is_attached(w, c)
     THEN /\ inv_ret' = [inv_ret EXCEPT ![t] = RET_OK]
          /\ pc' = [pc EXCEPT ![t] = AfterInvalidate(t)]
          /\ UNCHANGED <<state, notified>>
     ELSE IF state[w] = FREE
     THEN /\ state' = [state EXCEPT ![w] = INVALIDATING]
          /\ pc' = [pc EXCEPT ![t] = "inv_detach"]
          /\ UNCHANGED <<inv_ret, notified>>
     ELSE IF state[w] # ACQUIRING
     THEN /\ inv_ret' = [inv_ret EXCEPT ![t] = RET_ERROR]
          /\ pc' = [pc EXCEPT ![t] = AfterInvalidate(t)]
          /\ UNCHANGED <<state, notified>>
     ELSE /\ pc' = [pc EXCEPT ![t] = "inv_block"]
          /\ notified' = notified \ {t}
          /\ UNCHANGED <<state, inv_ret>>
  /\ UNCHANGED <<attached, attached_events_cache, native, active_conditions,
                 condvars, envvars, callvars, ctx, inv_ws, inv_c, fin, last,
                 waits, events>>
  /\ UNCHANGED <<epvars, triggers, lockvars, loanvars, timevars>>

\* RMW_Connext_WaitSet::invalidate, the FREE branch: detach() outside the lock
InvalidateDetach(t) ==
  /\ pc[t] = "inv_detach"
  /\ \E F \in FaultSets(Detachable(inv_ws[t])) :
       /\ detach(inv_ws[t], F)
       /\ inv_ret' = [inv_ret EXCEPT ![t] = IF F = {} THEN RET_OK ELSE RET_ERROR]
  /\ pc' = [pc EXCEPT ![t] = "inv_release"]
  /\ UNCHANGED <<state, active_conditions, deleted, alive, marked_blocked, envvars, callvars,
                 ctx, inv_ws, inv_c, fin, last, notified, waits>>
  /\ UNCHANGED <<epvars, triggers, lockvars, loanvars, timevars>>

\* RMW_Connext_WaitSet::invalidate, the FREE branch: back to FREE, broadcast
InvalidateRelease(t) ==
  /\ pc[t] = "inv_release"
  /\ state' = [state EXCEPT ![inv_ws[t]] = FREE]
  /\ notified' = notified \cup Parked(inv_ws[t])
  /\ pc' = [pc EXCEPT ![t] = AfterInvalidate(t)]
  /\ UNCHANGED <<attached, attached_events_cache, native, active_conditions,
                 condvars, envvars, callvars, invvars, last, waits, events>>
  /\ UNCHANGED <<epvars, triggers, lockvars, loanvars, timevars>>

\* an invalidate() that does not look at the lists after state_cond.wait()
InvalidateWake_unchecked(t) ==
  /\ pc[t] = "inv_block"
  /\ t \in notified
  /\ notified' = notified \ {t}
  /\ inv_ret' = [inv_ret EXCEPT ![t] = RET_OK]
  /\ pc' = [pc EXCEPT ![t] = AfterInvalidate(t)]
  /\ UNCHANGED <<wsvars, condvars, envvars, callvars, ctx, inv_ws, inv_c, fin,
                 last, waits, events>>
  /\ UNCHANGED <<epvars, triggers, lockvars, loanvars, timevars>>

\* RMW_Connext_WaitSet::invalidate resumes after state_cond.wait()
InvalidateWake(t) ==
  /\ pc[t] = "inv_block"
  /\ t \in notified
  /\ notified' = notified \ {t}
  /\ inv_ret' = [inv_ret EXCEPT ![t] =
                   IF is_attached(inv_ws[t], inv_c[t]) THEN RET_ERROR ELSE RET_OK]
  /\ pc' = [pc EXCEPT ![t] = AfterInvalidate(t)]
  /\ UNCHANGED <<wsvars, condvars, envvars, callvars, ctx, inv_ws, inv_c, fin,
                 last, waits, events>>
  /\ UNCHANGED <<epvars, triggers, lockvars, loanvars, timevars>>

\* --------------------------------------------------------------- finalize()
\* node_update_mutex is held by a finalize() of a publisher or a subscriber
FinalizeLocked(t) ==
  \E u \in Threads \ {t} : ctx[u] = "finalize" /\ fin[u] \notin Universe["gcs"]

\* RMW_Connext_Publisher::finalize / RMW_Connext_Subscriber::finalize /
\* delete gcond, up to the call of the condition's invalidate():
\* RMW_Connext_Condition::invalidate marks the condition deleted and calls
\* invalidate() of the wait-set it is attached to
FinalizeBegin(t, x) ==
  /\ StartOK(t)
  /\ events < MaxEvents
  /\ alive[x] /\ ~deleted[x]
  /\ InUse(x)
  /\ x \in Universe["gcs"] \/ ~FinalizeLocked(t)
  /\ events' = events + 1
  /\ deleted' = [deleted EXCEPT ![x] = TRUE]
  /\ marked_blocked' =
       IF \E w \in Waitsets : state[w] = BLOCKED /\ is_attached(w, x)
       THEN marked_blocked \cup {x} ELSE marked_blocked
  /\ ctx' = [ctx EXCEPT ![t] = "finalize"]
  /\ fin' = [fin EXCEPT ![t] = x]
  /\ inv_c' = [inv_c EXCEPT ![t] = x]
  /\ IF attached_waitset[x] = NULL
     THEN /\ pc' = [pc EXCEPT ![t] = "fin_delete"]
          /\ UNCHANGED inv_ws
     ELSE /\ pc' = [pc EXCEPT ![t] = "inv_enter"]
          /\ inv_ws' = [inv_ws EXCEPT ![t] = attached_waitset[x]]
  /\ UNCHANGED <<wsvars, attached_waitset, alive, envvars, callvars, inv_ret,
                 last, notified, waits>>
  /\ UNCHANGED <<epvars, triggers, lockvars, loanvars, timevars>>

\* finalize() after invalidate(), whose result is not looked at: the DDS
\* reader or writer is deleted, and the entity with it
FinalizeDelete(t) ==
  /\ pc[t] = "fin_delete"
  /\ alive' = [alive EXCEPT ![fin[t]] = FALSE]
  /\ pc' = [pc EXCEPT ![t] = "idle"]
  /\ ClearInv(t)
  /\ UNCHANGED <<wsvars, attached_waitset, deleted, marked_blocked, envvars,
                 callvars, last, notified, waits, events>>
  /\ UNCHANGED <<epvars, triggers, lockvars, loanvars, timevars>>

\* -------------------------------------------------------------- environment
\* a change of a condition is seen only through a wait-set that lists it or a
\* wait() that asks for it: changes are taken while the condition is in use
\* rmw_connextdds_trigger_guard_condition
Trigger(x) ==
  /\ events < MaxEvents
  /\ alive[x] /\ ~trigger_value[x]
  /\ InUse(x)
  /\ events' = events + 1
  /\ trigger_value' = [trigger_value EXCEPT ![x] = TRUE]
  /\ UNCHANGED <<wsvars, condvars, has_data, status_active, pc, callvars,
                 invvars, last, notified, waits>>
  /\ UNCHANGED <<epvars, triggers, lockvars, loanvars, timevars>>

\* bound on the trigger calls made between wait() calls
MaxTriggers == 3

\* rmw_connextdds_trigger_guard_condition called while no wait() is running,
\* any number of times
TriggerRepeat(x) ==
  /\ triggers < MaxTriggers
  /\ alive[x]
  /\ \A t \in Threads : pc[t] = "idle"
  /\ triggers' = triggers + 1
  /\ trigger_value' = [trigger_value EXCEPT ![x] = TRUE]
  /\ UNCHANGED <<wsvars, condvars, has_data, status_active, pc, callvars,
                 invvars, last, notified, waits, events>>
  /\ UNCHANGED <<epvars, lockvars, loanvars, timevars>>

\* a sample arrives at, or is taken from, the reader of x
DataChange(x) ==
  /\ events < MaxEvents
  /\ alive[x]
  /\ InUse(x)
  /\ events' = events + 1
  /\ has_data' = [has_data EXCEPT ![x] = ~@]
  /\ UNCHANGED <<wsvars, condvars, trigger_value, status_active, pc, callvars,
                 invvars, last, notified, waits>>
  /\ UNCHANGED <<epvars, triggers, lockvars, loanvars, timevars>>

\* another thread takes the samples held by the reader of x
\* (RMW_Connext_Subscriber::take_next), whatever the wait-sets are doing
DataTake(x) ==
  /\ alive[x]
  /\ has_data[x]
  /\ has_data' = [has_data EXCEPT ![x] = FALSE]
  /\ UNCHANGED <<wsvars, condvars, trigger_value, status_active, pc, callvars,
                 invvars, last, notified, waits, events>>
  /\ UNCHANGED <<epvars, triggers, lockvars, loanvars, timevars>>

\* the status of event e changes on its entity
StatusChange(e) ==
  /\ events < MaxEvents
  /\ alive[EventCondition(e)]
  /\ InUse(EventCondition(e))
  /\ events' = events + 1
  /\ status_active' = [status_active EXCEPT ![e] = ~@]
  /\ UNCHANGED <<wsvars, condvars, trigger_value, has_data, pc, callvars,
                 invvars, last, notified, waits>>
  /\ UNCHANGED <<epvars, triggers, lockvars, loanvars, timevars>>

\* ===================================================== clients and services
\* Request/reply on top of publish/subscribe: a client owns a request writer
\* and a reply reader, a service a request reader and a reply writer.  A step
\* is one call of a client or service operation, or one discovery event of
\* the engine.
MaxSteps == 3      \* writes and failed writes per behaviour

Clients == {"C1", "C2"}
Services == {"S1", "S2"}
Entities == Clients \cup Services
Endpoints == Entities \X {"pub", "sub"}
request_pub(c) == <<c, "pub">>
reply_sub(c) == <<c, "sub">>
reply_pub(s) == <<s, "pub">>
request_sub(s) == <<s, "sub">>
\* what the engine holds for an endpoint: the type registration, the topic
\* and the DataWriter or DataReader
Parts == {"type", "topic", "entity"}
Payloads == {"P1", "P2"}
Replies == {"R1", "R2"}

\* number of values of the low word of a DDS_SequenceNumber_t, scaled down
\* from 2^32
SnLowWidth == 16
\* rr_msg.sn of a request whose number the engine is to assign
SN_AUTO == -1

\* the engine's instance handle of an endpoint, and the gid made of it: 16
\* bytes of GUID followed by zero padding up to RMW_GID_STORAGE_SIZE
instance_handle(ep) == ep
rmw_connextdds_ih_to_gid(ih) == [guid |-> ih, pad |-> 0]
rmw_connextdds_gid_to_guid(gid) == gid.guid
rmw_connextdds_guid_to_gid(guid) == [guid |-> guid, pad |-> 0]
rmw_connextdds_sn_ros_to_dds(sn) ==
  [high |-> sn \div SnLowWidth, low |-> sn % SnLowWidth]
rmw_connextdds_sn_dds_to_ros(dds_sn) == dds_sn.high * SnLowWidth + dds_sn.low
\* RMW_Connext_Publisher::gid()
publisher_gid(ep) == rmw_connextdds_ih_to_gid(instance_handle(ep))

\* the identity put on the wire for a message header: the sample identity of
\* a request, the related sample identity of a reply
requestreply_header_to_dds(rr_msg) ==
  [request |-> rr_msg.request,
   writer_guid |-> rmw_connextdds_gid_to_guid(rr_msg.gid),
   sequence_number |-> rmw_connextdds_sn_ros_to_dds(rr_msg.sn)]

\* the message header read back from a sample: from the sample identity of a
\* request, from the related sample identity of a reply
requestreply_header_from_dds(sample) ==
  [gid |-> rmw_connextdds_guid_to_gid(sample.writer_guid),
   sn |-> rmw_connextdds_sn_dds_to_ros(sample.sequence_number)]

\* the request id handed to the caller: the sequence number and the first 16
\* bytes of the gid
request_id(rr_msg) == [writer_guid |-> rr_msg.gid.guid, sequence_number |-> rr_msg.sn]

\* the handle a client's caller holds for the request numbered sn
Handle(c, sn) ==
  [writer_guid |-> publisher_gid(request_pub(c)).guid, sequence_number |-> sn]

NoGuid == <<"none", "none">>
NoId == [writer_guid |-> NoGuid, sequence_number |-> 0]
NoResult ==
  [op |-> "none", who |-> "none", rc |-> RET_OK, taken |-> FALSE,
   available |-> FALSE, id |-> NoId, payload |-> "none", expect |-> 0,
   log |-> {}]

NoSample ==
  [request |-> FALSE, writer_guid |-> NoGuid, sequence_number |-> 0,
   payload |-> "none"]

\* the header as it travels with a sample: inside the payload when
\* request/reply is emulated, in the sample identity fields otherwise
wire_header(rr_msg) ==
  IF emulate
  THEN [request |-> rr_msg.request, writer_guid |-> rr_msg.gid.guid,
        sequence_number |-> rr_msg.sn]
  ELSE requestreply_header_to_dds(rr_msg)

\* RMW_Connext_Subscriber::take_next, the header of a taken sample
read_header(sample) ==
  IF emulate
  THEN [gid |-> [guid |-> sample.writer_guid, pad |-> 0],
        sn |-> sample.sequence_number]
  ELSE requestreply_header_from_dds(sample)

\* the sample the engine makes of a written message: the identity of a
\* request written without a number is the writer's own GUID and its next
\* sequence number
written_sample(ep, rr_msg, payload, seq) ==
  LET hdr == wire_header(rr_msg) IN
  IF ~emulate /\ rr_msg.request
  THEN [request |-> TRUE, writer_guid |-> instance_handle(ep),
        sequence_number |-> rmw_connextdds_sn_ros_to_dds(seq),
        payload |-> payload]
  ELSE [request |-> hdr.request, writer_guid |-> hdr.writer_guid,
        sequence_number |-> hdr.sequence_number, payload |-> payload]

\* the literal of the content filter Client::create builds for the reply
\* reader of c: the GUID of the request writer
cft_filter(c) ==
  rmw_connextdds_gid_to_guid(
    rmw_connextdds_ih_to_gid(instance_handle(request_pub(c))))

\* the content-filtered topic of a reply reader, where the engine has one:
\* the related writer GUID equals the literal
cft_passes(r, sample) ==
  \/ emulate
  \/ r[1] \notin Clients
  \/ sample.writer_guid = cft_filter(r[1])

\* the readers a sample written by w reaches
Receivers(w, sample) ==
  {r \in Endpoints : <<w, r>> \in matched /\ cft_passes(r, sample)}

Deliver(w, sample) ==
  [r \in Endpoints |->
     IF r \in Receivers(w, sample) THEN Append(cache[r], sample) ELSE cache[r]]

filter_sample_accept_all(sample, request_writer_handle) == TRUE
\* rmw_connextdds_filter_sample: without a content-filtered topic a reply is
\* accepted when its related writer GUID is the one of the request writer
rmw_connextdds_filter_sample(sample, request_writer_handle) ==
  \/ request_writer_handle = NoGuid
  \/ ~emulate
  \/ sample.writer_guid =
       rmw_connextdds_gid_to_guid(rmw_connextdds_ih_to_gid(request_writer_handle))

take_next_keep(q, request_writer_handle) ==
  LET I == {i \in 1..Len(q) :
              rmw_connextdds_filter_sample(q[i], request_writer_handle)}
  IN IF I = {}
     THEN [taken |-> FALSE, sample |-> NoSample, rest |-> q]
     ELSE LET i == CHOOSE i \in I : \A j \in I : i <= j
          IN [taken |-> TRUE, sample |-> q[i], rest |-> q]
\* RMW_Connext_Subscriber::take_next with max_samples = 1: samples that are
\* not accepted are dropped, the first accepted one is taken
take_next(q, request_writer_handle) ==
  LET I == {i \in 1..Len(q) :
              rmw_connextdds_filter_sample(q[i], request_writer_handle)}
  IN IF I = {}
     THEN [taken |-> FALSE, sample |-> NoSample, rest |-> <<>>]
     ELSE LET i == CHOOSE i \in I : \A j \in I : i <= j
          IN [taken |-> TRUE, sample |-> q[i], rest |-> SubSeq(q, i + 1, Len(q))]

send_request_reuse_id(c) == IF emulate THEN next_request_id[c] ELSE writer_sn[c]
\* RMW_Connext_Client::send_request: the number of the request, from the
\* client's counter or from the engine's writer
send_request_id(c) ==
  IF emulate THEN next_request_id[c] + 1 ELSE writer_sn[c] + 1

\* RMW_Connext_Client::send_request
SendRequest(c, P, ok) ==
  /\ impl[c] = "live"
  /\ steps < MaxSteps
  /\ steps' = steps + 1
  /\ LET sequence_id == send_request_id(c)
         rr_msg == [request |-> TRUE,
                    sn |-> IF emulate THEN sequence_id ELSE SN_AUTO,
                    gid |-> publisher_gid(request_pub(c)),
                    payload |-> P]
         sample == written_sample(request_pub(c), rr_msg, P, sequence_id)
     IN /\ next_request_id' =
             IF emulate THEN [next_request_id EXCEPT ![c] = sequence_id]
             ELSE next_request_id
        /\ writer_sn' =
             IF ~emulate /\ ok THEN [writer_sn EXCEPT ![c] = sequence_id]
             ELSE writer_sn
        /\ cache' = IF ok THEN Deliver(request_pub(c), sample) ELSE cache
        /\ sent' = IF ok THEN [sent EXCEPT ![c] = Append(@, [sn |-> sequence_id, payload |-> P])]
                   ELSE sent
        /\ result' = [NoResult EXCEPT !.op = "send_request", !.who = c,
                        !.rc = IF ok THEN RET_OK ELSE RET_ERROR,
                        !.id = Handle(c, sequence_id), !.payload = P]
  /\ UNCHANGED <<emulate, engine, heap, impl, matched, pending, answered>>
  /\ UNCHANGED <<coordvars, triggers, lockvars, loanvars, timevars>>

\* RMW_Connext_Service::take_request
TakeRequest(s) ==
  /\ impl[s] = "live"
  /\ LET t == take_next(cache[request_sub(s)], NoGuid)
         rr_msg == read_header(t.sample)
     IN /\ cache' = [cache EXCEPT ![request_sub(s)] = t.rest]
        /\ IF t.taken
           THEN /\ result' = [NoResult EXCEPT !.op = "take_request", !.who = s,
                                !.taken = TRUE, !.id = request_id(rr_msg),
                                !.payload = t.sample.payload]
                /\ pending' = [pending EXCEPT ![s] =
                                 @ \cup {[id |-> request_id(rr_msg),
                                          payload |-> t.sample.payload]}]
           ELSE /\ result' = [NoResult EXCEPT !.op = "take_request", !.who = s]
                /\ UNCHANGED pending
  /\ UNCHANGED <<emulate, engine, heap, impl, matched, next_request_id,
                 writer_sn, sent, answered, steps>>
  /\ UNCHANGED <<coordvars, triggers, lockvars, loanvars, timevars>>

send_response_header_own(s, id) ==
  [request |-> FALSE, sn |-> id.sequence_number,
   gid |-> publisher_gid(reply_pub(s))]
\* RMW_Connext_Service::send_response: the header of the reply is the
\* request id as the caller gives it back
send_response_header(s, id) ==
  [request |-> FALSE, sn |-> id.sequence_number,
   gid |-> [guid |-> id.writer_guid, pad |-> 0]]

\* RMW_Connext_Service::send_response, for a request this service has taken
SendResponse(s, rq, R, ok) ==
  /\ impl[s] = "live"
  /\ rq \in pending[s]
  /\ steps < MaxSteps
  /\ steps' = steps + 1
  /\ LET rr_msg == send_response_header(s, rq.id)
         sample == written_sample(reply_pub(s), rr_msg, R, 0)
     IN /\ cache' = IF ok THEN Deliver(reply_pub(s), sample) ELSE cache
        /\ answered' = IF ok THEN answered \cup {[id |-> rq.id, payload |-> R]}
                       ELSE answered
        /\ result' = [NoResult EXCEPT !.op = "send_response", !.who = s,
                        !.rc = IF ok THEN RET_OK ELSE RET_ERROR,
                        !.id = rq.id, !.payload = R]
  /\ pending' = [pending EXCEPT ![s] = @ \ {rq}]
  /\ UNCHANGED <<emulate, engine, heap, impl, matched, next_request_id,
                 writer_sn, sent>>
  /\ UNCHANGED <<coordvars, triggers, lockvars, loanvars, timevars>>

take_response_no_handle(c) == NoGuid
\* RMW_Connext_Client::take_response: the instance handle of the request
\* writer, given to take_message to filter the replies
take_response_handle(c) == instance_handle(request_pub(c))

\* RMW_Connext_Client::take_response; expect is the number of the request
\* whose reply the caller is after, which the call does not take
TakeResponse(c, expect) ==
  /\ impl[c] = "live"
  /\ LET t == take_next(cache[reply_sub(c)], take_response_handle(c))
         rr_msg == read_header(t.sample)
     IN /\ cache' = [cache EXCEPT ![reply_sub(c)] = t.rest]
        /\ result' =
             IF t.taken
             THEN [NoResult EXCEPT !.op = "take_response", !.who = c,
                     !.taken = TRUE, !.id = request_id(rr_msg),
                     !.payload = t.sample.payload, !.expect = expect]
             ELSE [NoResult EXCEPT !.op = "take_response", !.who = c,
                     !.expect = expect]
  /\ UNCHANGED <<emulate, engine, heap, impl, matched, next_request_id,
                 writer_sn, pending, sent, answered, steps>>
  /\ UNCHANGED <<coordvars, triggers, lockvars, loanvars, timevars>>

\* ------------------------------------------------- creation and destruction
\* the engine call that fails in a finalize(), if any
FinalizeFaults == {"none", "entity", "topic", "type"}

\* RMW_Connext_Publisher::finalize: the parts left in the engine when the
\* call fails at f; the writer goes first, then the topic, then the type
Publisher_finalize(parts, f) ==
  CASE f = "entity" -> parts
    [] f = "topic" -> parts \ {"entity"}
    [] f = "type" -> parts \ {"entity", "topic"}
    [] OTHER -> {}

\* RMW_Connext_Subscriber::finalize: the reader goes first, then the topic,
\* then the type
Subscriber_finalize(parts, f) ==
  CASE f = "entity" -> parts
    [] f = "topic" -> parts \ {"entity"}
    [] f = "type" -> parts \ {"entity", "topic"}
    [] OTHER -> {}

\* matches of endpoints the engine no longer has are gone
Prune(m, eng) ==
  {p \in m : "entity" \in eng[p[1]] /\ "entity" \in eng[p[2]]}

\* RMW_Connext_Client::finalize on a client whose request publisher
\* (has_pub) and reply subscriber (has_sub) pointers are set: an endpoint is
\* deleted after its finalize() succeeded, the first failure ends the call
Client_finalize(eng, hp, c, has_pub, has_sub, f1, f2) ==
  LET ok1 == ~has_pub \/ f1 = "none"
      e1 == IF has_pub
            THEN [eng EXCEPT ![request_pub(c)] = Publisher_finalize(@, f1)]
            ELSE eng
      h1 == IF has_pub /\ ok1 THEN hp \ {request_pub(c)} ELSE hp
      run2 == ok1 /\ has_sub
      ok2 == ok1 /\ (~has_sub \/ f2 = "none")
      e2 == IF run2
            THEN [e1 EXCEPT ![reply_sub(c)] = Subscriber_finalize(@, f2)]
            ELSE e1
      h2 == IF run2 /\ ok2 THEN h1 \ {reply_sub(c)} ELSE h1
  IN [engine |-> e2, heap |-> h2, rc |-> IF ok2 THEN RET_OK ELSE RET_ERROR]

\* RMW_Connext_Service::finalize
Service_finalize(eng, hp, s, f1, f2) ==
  LET ok1 == f1 = "none"
      e1 == [eng EXCEPT ![reply_pub(s)] = Publisher_finalize(@, f1)]
      h1 == IF ok1 THEN hp \ {reply_pub(s)} ELSE hp
      ok2 == ok1 /\ f2 = "none"
      e2 == IF ok1
            THEN [e1 EXCEPT ![request_sub(s)] = Subscriber_finalize(@, f2)]
            ELSE e1
      h2 == IF ok2 THEN h1 \ {request_sub(s)} ELSE h1
  IN [engine |-> e2, heap |-> h2, rc |-> IF ok2 THEN RET_OK ELSE RET_ERROR]

\* where a create() fails: before the publisher exists, in
\* Publisher::create, between the two endpoints, in Subscriber::create, or
\* nowhere
CreateStages == {"alloc", "pub", "mid", "sub", "ok"}

\* an endpoint whose create() succeeded is in the engine with all its parts
\* (the content-filtered topic of a reply reader counts with its topic)
Created(eng, ep) == [eng EXCEPT ![ep] = Parts]

\* where Publisher::create fails: register_type_support, assert_topic,
\* get_default_datawriter_qos, rmw_connextdds_create_datawriter, new, or
\* nowhere
PubStages == {"type", "topic", "qos", "entity", "alloc", "ok"}

\* where Subscriber::create fails: as Publisher::create, and at
\* rmw_connextdds_create_contentfilteredtopic
SubStages == {"type", "topic", "cft", "qos", "entity", "alloc", "ok"}

\* what register_type_support and assert_topic made new for this call
\* (type_registered, topic_created)
MadeSets == SUBSET {"type", "topic"}

\* the result of rmw_connextdds_create_contentfilteredtopic; "none" when
\* no filter is asked for (cft_name is null)
CftResults == {"none", "OK", "UNSUPPORTED", "ERROR"}

\* the stage a create() reached comes after stage st
After(order, stage, st) ==
  \E i, j \in 1..Len(order) : order[i] = st /\ order[j] = stage /\ i < j

PubOrder == <<"type", "topic", "qos", "entity", "alloc", "ok">>
SubOrder == <<"type", "topic", "cft", "qos", "entity", "alloc", "ok">>

\* RMW_Connext_Publisher::create: the parts of the endpoint in the engine
\* when the call returns. The scope exits of a failed call run in reverse
\* order: the writer is deleted, the topic is deleted if this call made
\* it, the type is unregistered if this call registered it
Publisher_create(stage, made) ==
  LET built == (IF After(PubOrder, stage, "type") THEN made \cap {"type"} ELSE {})
               \cup (IF After(PubOrder, stage, "topic") THEN made \cap {"topic"} ELSE {})
               \cup (IF After(PubOrder, stage, "entity") THEN {"entity"} ELSE {})
      undone == {"entity"} \cup (made \cap {"topic"}) \cup (made \cap {"type"})
  IN IF stage = "ok" THEN built ELSE built \ undone

\* RMW_Connext_Subscriber::create. scope_exit_topic_delete captures
\* cft_topic by value when it is still null: the content-filtered topic
\* made later is not deleted by a failed call, and the engine may (kept) or
\* may not keep the topic the filter refers to
Subscriber_create(stage, made, cft_rc, kept) ==
  LET captured_cft == {}
      built == (IF After(SubOrder, stage, "type") THEN made \cap {"type"} ELSE {})
               \cup (IF After(SubOrder, stage, "topic") THEN made \cap {"topic"} ELSE {})
               \cup (IF After(SubOrder, stage, "cft") /\ cft_rc = "OK" THEN {"cft"} ELSE {})
               \cup (IF After(SubOrder, stage, "entity") THEN {"entity"} ELSE {})
      topic_undone == IF "cft" \in built \ captured_cft /\ kept THEN {}
                      ELSE made \cap {"topic"}
      undone == {"entity"} \cup captured_cft \cup topic_undone \cup (made \cap {"type"})
  IN IF stage = "ok" THEN built ELSE built \ undone

\* a create() that goes on whatever the filter creation answers
StageFits_any(stage, cft_rc) == stage # "cft"

\* the stages and filter results that go together: the call fails at "cft"
\* exactly when the filter cannot be made for another reason than
\* UNSUPPORTED (cft_rc is what the engine answers if it is asked)
StageFits(stage, cft_rc) ==
  /\ stage = "cft" => cft_rc = "ERROR"
  /\ After(SubOrder, stage, "cft") => cft_rc # "ERROR"

\* what a failed Subscriber::create of the reply reader of a client, which
\* asks for a filter and whose topic and type are new, can leave in the
\* engine
ReplyReaderResidues ==
  {Subscriber_create(x[1], {"type", "topic"}, x[2], x[3]) :
     x \in {y \in (SubStages \ {"ok"}) \X (CftResults \ {"none"}) \X BOOLEAN :
             StageFits(y[1], y[2])}}

Client_create_cleanup_delete_only(eng, hp, c, has_pub, f1) ==
  [engine |-> eng, heap |-> hp, rc |-> RET_OK]
\* scope_exit_client_impl_delete of Client::create: finalize(), then
\* delete client_impl
Client_create_cleanup(eng, hp, c, has_pub, f1) ==
  Client_finalize(eng, hp, c, has_pub, FALSE, f1, "none")

\* the errors Client::create logs when it fails at stage and the finalize()
\* of its clean-up fails at f1
Client_create_log(stage, f1) ==
  (CASE stage = "alloc" -> {"failed to allocate client implementation"}
     [] stage = "pub" -> {"failed to create client requester"}
     [] stage = "mid" -> {"failed too allocate cft name"}
     [] stage = "sub" -> {"failed to create client replier"}
     [] OTHER -> {})
  \cup (IF f1 = "none" THEN {} ELSE {"failed to finalize client"})

\* the errors Service::create logs when it fails at stage
Service_create_log(stage) ==
  CASE stage = "alloc" -> {"failed to allocate service implementation"}
    [] stage = "pub" -> {"failed to create service replier"}
    [] stage = "sub" -> {"failed to create service requester"}
    [] OTHER -> {}

\* RMW_Connext_Client::create; a failed Subscriber::create of the reply
\* reader leaves what Subscriber_create says
ClientCreate(c, stage, f1) ==
  /\ impl[c] = "none"
  /\ stage \in {"alloc", "pub", "ok"} => f1 = "none"
  /\ LET has_pub == stage \in {"mid", "sub", "ok"}
         e1 == IF has_pub THEN Created(engine, request_pub(c)) ELSE engine
         h1 == IF has_pub THEN heap \cup {request_pub(c)} ELSE heap
         undo == Client_create_cleanup(e1, h1, c, has_pub, f1)
     IN IF stage = "ok"
        THEN /\ engine' = Created(e1, reply_sub(c))
             /\ heap' = h1 \cup {reply_sub(c)}
             /\ impl' = [impl EXCEPT ![c] = "live"]
             /\ UNCHANGED matched
        ELSE /\ \E left \in (IF stage = "sub" THEN ReplyReaderResidues ELSE {{}}) :
                  engine' = [undo.engine EXCEPT ![reply_sub(c)] = left]
             /\ heap' = undo.heap
             /\ impl' = [impl EXCEPT ![c] = "null"]
             /\ matched' = Prune(matched, undo.engine)
  /\ result' = [NoResult EXCEPT !.op = "create", !.who = c,
                  !.rc = IF stage = "ok" THEN RET_OK ELSE RET_ERROR,
                  !.log = Client_create_log(stage, f1)]
  /\ UNCHANGED <<emulate, cache, next_request_id, writer_sn, pending, sent,
                 answered, steps>>
  /\ UNCHANGED <<coordvars, triggers, lockvars, loanvars, timevars>>

\* RMW_Connext_Service::create; scope_exit_svc_impl_delete deletes svc_impl
\* and nothing else
ServiceCreate(s, stage) ==
  /\ impl[s] = "none"
  /\ stage # "mid"
  /\ LET has_pub == stage \in {"sub", "ok"}
         e1 == IF has_pub THEN Created(engine, reply_pub(s)) ELSE engine
         h1 == IF has_pub THEN heap \cup {reply_pub(s)} ELSE heap
     IN IF stage = "ok"
        THEN /\ engine' = Created(e1, request_sub(s))
             /\ heap' = h1 \cup {request_sub(s)}
             /\ impl' = [impl EXCEPT ![s] = "live"]
        ELSE /\ engine' = e1
             /\ heap' = h1
             /\ impl' = [impl EXCEPT ![s] = "null"]
  /\ result' = [NoResult EXCEPT !.op = "create", !.who = s,
                  !.rc = IF stage = "ok" THEN RET_OK ELSE RET_ERROR,
                  !.log = Service_create_log(stage)]
  /\ UNCHANGED <<emulate, matched, cache, next_request_id, writer_sn, pending,
                 sent, answered, steps>>
  /\ UNCHANGED <<coordvars, triggers, lockvars, loanvars, timevars>>

\* destruction of a client: RMW_Connext_Client::finalize
ClientFinalize(c, f1, f2) ==
  /\ impl[c] = "live"
  /\ LET fin_ == Client_finalize(engine, heap, c, TRUE, TRUE, f1, f2)
     IN /\ engine' = fin_.engine
        /\ heap' = fin_.heap
        /\ matched' = Prune(matched, fin_.engine)
        /\ result' = [NoResult EXCEPT !.op = "finalize", !.who = c, !.rc = fin_.rc]
  /\ impl' = [impl EXCEPT ![c] = "gone"]
  /\ UNCHANGED <<emulate, cache, next_request_id, writer_sn, pending, sent,
                 answered, steps>>
  /\ UNCHANGED <<coordvars, triggers, lockvars, loanvars, timevars>>

\* destruction of a service: RMW_Connext_Service::finalize
ServiceFinalize(s, f1, f2) ==
  /\ impl[s] = "live"
  /\ LET fin_ == Service_finalize(engine, heap, s, f1, f2)
     IN /\ engine' = fin_.engine
        /\ heap' = fin_.heap
        /\ matched' = Prune(matched, fin_.engine)
        /\ result' = [NoResult EXCEPT !.op = "finalize", !.who = s, !.rc = fin_.rc]
  /\ impl' = [impl EXCEPT ![s] = "gone"]
  /\ UNCHANGED <<emulate, cache, next_request_id, writer_sn, pending, sent,
                 answered, steps>>
  /\ UNCHANGED <<coordvars, triggers, lockvars, loanvars, timevars>>

\* what a call through a pointer to a deleted endpoint can do
DanglingOutcomes == {"ok", "error"}

\* RMW_Connext_Client::finalize called again after it returned ERROR: the
\* client object still exists; request_pub and reply_sub are never set to
\* null, so a publisher deleted by the first call is used again (g is what
\* the call through the dangling pointer answers) and deleted again
ClientFinalizeAgain(c, f1, f2, g) ==
  /\ impl[c] = "gone"
  /\ request_pub(c) \in heap \/ reply_sub(c) \in heap
  /\ IF request_pub(c) \in heap
     THEN LET fin_ == Client_finalize(engine, heap, c, TRUE, TRUE, f1, f2)
          IN /\ g = "ok"
             /\ engine' = fin_.engine
             /\ heap' = fin_.heap
             /\ result' = [NoResult EXCEPT !.op = "finalize", !.who = c,
                             !.rc = fin_.rc]
     ELSE /\ f1 = "none"
          /\ g = "error" => f2 = "none"
          /\ engine' = IF g = "ok"
                       THEN [engine EXCEPT ![reply_sub(c)] = Subscriber_finalize(@, f2)]
                       ELSE engine
          /\ heap' = IF g = "ok" /\ f2 = "none" THEN heap \ {reply_sub(c)} ELSE heap
          /\ result' = [NoResult EXCEPT !.op = "finalize", !.who = c,
                          !.rc = IF g = "ok" /\ f2 = "none" THEN RET_OK ELSE RET_ERROR,
                          !.log = {"deleted publisher finalized"}
                                  \cup (IF g = "ok" THEN {"publisher deleted twice"} ELSE {})]
  /\ matched' = Prune(matched, engine')
  /\ UNCHANGED <<emulate, impl, cache, next_request_id, writer_sn, pending, sent,
                 answered, steps>>
  /\ UNCHANGED <<coordvars, triggers, lockvars, loanvars, timevars>>

\* RMW_Connext_Service::finalize called again after it returned ERROR
ServiceFinalizeAgain(s, f1, f2, g) ==
  /\ impl[s] = "gone"
  /\ reply_pub(s) \in heap \/ request_sub(s) \in heap
  /\ IF reply_pub(s) \in heap
     THEN LET fin_ == Service_finalize(engine, heap, s, f1, f2)
          IN /\ g = "ok"
             /\ engine' = fin_.engine
             /\ heap' = fin_.heap
             /\ result' = [NoResult EXCEPT !.op = "finalize", !.who = s,
                             !.rc = fin_.rc]
     ELSE /\ f1 = "none"
          /\ g = "error" => f2 = "none"
          /\ engine' = IF g = "ok"
                       THEN [engine EXCEPT ![request_sub(s)] = Subscriber_finalize(@, f2)]
                       ELSE engine
          /\ heap' = IF g = "ok" /\ f2 = "none" THEN heap \ {request_sub(s)} ELSE heap
          /\ result' = [NoResult EXCEPT !.op = "finalize", !.who = s,
                          !.rc = IF g = "ok" /\ f2 = "none" THEN RET_OK ELSE RET_ERROR,
                          !.log = {"deleted publisher finalized"}
                                  \cup (IF g = "ok" THEN {"publisher deleted twice"} ELSE {})]
  /\ matched' = Prune(matched, engine')
  /\ UNCHANGED <<emulate, impl, cache, next_request_id, writer_sn, pending, sent,
                 answered, steps>>
  /\ UNCHANGED <<coordvars, triggers, lockvars, loanvars, timevars>>

\* the entities whose endpoints are created one by one
CreateEntities == {"C1", "S1"}

\* RMW_Connext_Publisher::create of the writer endpoint of entity e
PublisherCreate(e, stage, made) ==
  /\ engine[<<e, "pub">>] = {} /\ <<e, "pub">> \notin heap
  /\ engine' = [engine EXCEPT ![<<e, "pub">>] = Publisher_create(stage, made)]
  /\ heap' = IF stage = "ok" THEN heap \cup {<<e, "pub">>} ELSE heap
  /\ result' = [NoResult EXCEPT !.op = "create_publisher", !.who = e,
                  !.rc = IF stage = "ok" THEN RET_OK ELSE RET_ERROR]
  /\ UNCHANGED <<emulate, impl, matched, cache, next_request_id, writer_sn,
                 pending, sent, answered, steps>>
  /\ UNCHANGED <<coordvars, triggers, lockvars, loanvars, timevars>>

\* RMW_Connext_Subscriber::create of the reader endpoint of entity e
SubscriberCreate(e, stage, made, cft_rc, kept) ==
  /\ engine[<<e, "sub">>] = {} /\ <<e, "sub">> \notin heap
  /\ StageFits(stage, cft_rc)
  /\ engine' = [engine EXCEPT ![<<e, "sub">>] =
                  Subscriber_create(stage, made, cft_rc, kept)]
  /\ heap' = IF stage = "ok" THEN heap \cup {<<e, "sub">>} ELSE heap
  /\ result' = [NoResult EXCEPT !.op = "create_subscriber", !.who = e,
                  !.rc = IF stage = "ok" THEN RET_OK ELSE RET_ERROR,
                  !.payload = stage, !.log = {cft_rc}]
  /\ UNCHANGED <<emulate, impl, matched, cache, next_request_id, writer_sn,
                 pending, sent, answered, steps>>
  /\ UNCHANGED <<coordvars, triggers, lockvars, loanvars, timevars>>

\* ------------------------------------------------------------- discovery
\* a writer and a reader of the same topic: requests go from clients to
\* services, replies from services to clients
SameTopic(w, r) ==
  /\ w[2] = "pub" /\ r[2] = "sub"
  /\ \/ w[1] \in Clients /\ r[1] \in Services
     \/ w[1] \in Services /\ r[1] \in Clients

\* the engine matches, or stops matching, a writer and a reader it holds
Discovery(w, r) ==
  /\ SameTopic(w, r)
  /\ "entity" \in engine[w] /\ "entity" \in engine[r]
  /\ matched' = IF <<w, r>> \in matched THEN matched \ {<<w, r>>}
                ELSE matched \cup {<<w, r>>}
  /\ UNCHANGED <<emulate, engine, heap, impl, cache, next_request_id,
                 writer_sn, pending, sent, answered, result, steps>>
  /\ UNCHANGED <<coordvars, triggers, lockvars, loanvars, timevars>>

\* RMW_Connext_Publisher::subscriptions_count
subscriptions_count(w) == Cardinality({r \in Endpoints : <<w, r>> \in matched})
\* RMW_Connext_Subscriber::publications_count
publications_count(r) == Cardinality({w \in Endpoints : <<w, r>> \in matched})

\* RMW_Connext_Client::is_service_available
is_service_available(c) ==
  subscriptions_count(request_pub(c)) > 0 /\ publications_count(reply_sub(c)) > 0

IsServiceAvailable(c) ==
  /\ impl[c] = "live"
  /\ result' = [NoResult EXCEPT !.op = "is_service_available", !.who = c,
                  !.available = is_service_available(c)]
  /\ UNCHANGED <<emulate, engine, heap, impl, matched, cache, next_request_id,
                 writer_sn, pending, sent, answered, steps>>
  /\ UNCHANGED <<coordvars, triggers, lockvars, loanvars, timevars>>

\* ----------------------------------------------------------- initial states
\* no client or service has been created
InitEndpoints ==
  /\ emulate = FALSE
  /\ engine = [ep \in Endpoints |-> {}]
  /\ heap = {}
  /\ impl = [e \in Entities |-> "none"]
  /\ matched = {}
  /\ cache = [ep \in Endpoints |-> <<>>]
  /\ next_request_id = [c \in Clients |-> 0]
  /\ writer_sn = [c \in Clients |-> 0]
  /\ pending = [s \in Services |-> {}]
  /\ sent = [c \in Clients |-> <<>>]
  /\ answered = {}
  /\ result = NoResult
  /\ steps = 0

\* every client is matched with every service of S, both ways
FullMatch(S) ==
  {<<request_pub(c), request_sub(s)>> : c \in Clients, s \in S}
    \cup {<<reply_pub(s), reply_sub(c)>> : c \in Clients, s \in S}

\* the clients and services exist and discovery has completed, in either
\* build, with one service or two
InitMatched ==
  /\ emulate \in BOOLEAN
  /\ engine = [ep \in Endpoints |-> Parts]
  /\ heap = Endpoints
  /\ impl = [e \in Entities |-> "live"]
  /\ matched \in {FullMatch({"S1"}), FullMatch(Services)}
  /\ cache = [ep \in Endpoints |-> <<>>]
  /\ next_request_id = [c \in Clients |-> 0]
  /\ writer_sn = [c \in Clients |-> 0]
  /\ pending = [s \in Services |-> {}]
  /\ sent = [c \in Clients |-> <<>>]
  /\ answered = {}
  /\ result = NoResult
  /\ steps = 0

Init == InitWaitSets /\ InitEndpoints

Next ==
  \/ \E t \in Threads, w \in Waitsets, r \in Requests : WaitEnter(t, w, r)
  \/ \E t \in Threads : WaitEnterWake(t)
  \/ \E t \in Threads : AttachBegin(t)
  \/ \E t \in Threads : AttachElem(t)
  \/ \E t \in Threads : AttachAfterInvalidate(t)
  \/ \E t \in Threads : PreBlock(t)
  \/ \E t \in Threads : WaitWake(t)
  \/ \E t \in Threads : WaitProcess(t)
  \/ \E t \in Threads : ExitDetach(t)
  \/ \E t \in Threads : InvalidateEnter(t)
  \/ \E t \in Threads : InvalidateDetach(t)
  \/ \E t \in Threads : InvalidateRelease(t)
  \/ \E t \in Threads : InvalidateWake(t)
  \/ \E t \in Threads, x \in Conds : FinalizeBegin(t, x)
  \/ \E t \in Threads : FinalizeDelete(t)
  \/ \E x \in Universe["gcs"] : Trigger(x)
  \/ \E x \in DataSources : DataChange(x)
  \/ \E e \in Universe["evs"] : StatusChange(e)

Spec == Init /\ [][Next]_vars

\* guard conditions triggered any number of times while no wait() is running,
\* and the wait() calls of the threads on W1
NextGuard ==
  \/ \E x \in Universe["gcs"] : TriggerRepeat(x)
  \/ \E t \in Threads, r \in Requests : WaitEnter(t, "W1", r)
  \/ \E t \in Threads : AttachBegin(t)
  \/ \E t \in Threads : AttachElem(t)
  \/ \E t \in Threads : PreBlock(t)
  \/ \E t \in Threads : WaitWake(t)
  \/ \E t \in Threads : WaitProcess(t)
  \/ \E t \in Threads : ExitDetach(t)

SpecGuard == Init /\ [][NextGuard]_vars

\* rmw_connextdds_trigger_guard_condition called after DDS_WaitSet_wait has
\* returned x as active and before process_wait() has run; the call is
\* recorded as the last call made
TriggerDuring(x) ==
  /\ triggers < MaxTriggers
  /\ alive[x]
  /\ \E t \in Threads : pc[t] = "process" /\ x \in active_conditions[tw[t]]
  /\ triggers' = triggers + 1
  /\ trigger_value' = [trigger_value EXCEPT ![x] = TRUE]
  /\ result' = [NoResult EXCEPT !.op = "trigger_guard_condition", !.who = x]
  /\ UNCHANGED <<wsvars, condvars, has_data, status_active, pc, callvars,
                 invvars, last, notified, waits, events>>
  /\ UNCHANGED <<emulate, engine, heap, impl, matched, cache, next_request_id,
                 writer_sn, pending, sent, answered, steps, lockvars, loanvars, timevars>>

\* the same, with trigger calls made between the wake-up of the engine and
\* process_wait()
NextReset ==
  \/ NextGuard
  \/ \E x \in Universe["gcs"] : TriggerDuring(x)

SpecReset == Init /\ [][NextReset]_vars

\* one thread that waits on W1 while samples arrive and other threads take
\* them
NextTake ==
  \/ \E r \in Requests : WaitEnter("t1", "W1", r)
  \/ AttachBegin("t1")
  \/ AttachElem("t1")
  \/ PreBlock("t1")
  \/ WaitWake("t1")
  \/ WaitProcess("t1")
  \/ ExitDetach("t1")
  \/ \E x \in DataSources : DataChange(x)
  \/ \E x \in DataSources : DataTake(x)

SpecTake == Init /\ [][NextTake]_vars

\* ------------------------------------------------------ fair scheduling
\* wait() calls that name subscriptions only
SubRequests == {r \in Requests : TotalLen(r) = Len(r["subs"])}

\* the steps by which a call of thread t that has begun goes on: DDS_WaitSet_wait
\* returns (WaitWake), a mutex is taken, a woken thread resumes
Continue(t) ==
  \/ WaitEnterWake(t)
  \/ AttachBegin(t)
  \/ AttachElem(t)
  \/ AttachAfterInvalidate(t)
  \/ PreBlock(t)
  \/ WaitWake(t)
  \/ WaitProcess(t)
  \/ ExitDetach(t)
  \/ InvalidateEnter(t)
  \/ InvalidateDetach(t)
  \/ InvalidateRelease(t)
  \/ InvalidateWake(t)
  \/ FinalizeDelete(t)

NextLive ==
  \/ \E t \in Threads, w \in Waitsets, r \in SubRequests : WaitEnter(t, w, r)
  \/ \E t \in Threads, x \in Conds : FinalizeBegin(t, x)
  \/ \E t \in Threads : Continue(t)

\* every engine wait returns and every thread that can run does run
SpecLive == Init /\ [][NextLive]_vars /\ \A t \in Threads : WF_vars(Continue(t))

\* ------------------------------------------------- mutexes and broadcasts
\* wait() and invalidate() statement by statement, with the two mutexes
\* (the wait-set's mutex_internal and one condition's mutex_internal)
\* and state_cond made explicit. An operation is a record: k the kind of
\* statement, m the mutex, field, method or state it names, on/to the
\* states on which a branch is taken and the index it goes to.
Op(k, m, on, to) == [k |-> k, m |-> m, on |-> on, to |-> to]

\* RMW_Connext_WaitSet::wait() with one subscriber in the arrays
WaitProgram == <<
  Op("lock", "ws", {}, 0),               \*  1  3974
  Op("br", "", {INVALIDATING}, 4),       \*  2  3982
  Op("br", "", WaitSetStates, 6),        \*  3  3977, 3990
  Op("park", "ws", {}, 0),               \*  4  3986 state_cond.wait(lock)
  Op("lock", "ws", {}, 0),               \*  5  3986 woken, mutex taken again
  Op("br", "", {FREE}, 9),               \*  6  3987, 3996
  Op("unlock", "ws", {}, 0),             \*  7  4000
  Op("ret", "", {}, 0),                  \*  8  4000
  Op("set", ACQUIRING, {}, 0),           \*  9  4002
  Op("unlock", "ws", {}, 0),             \* 10  4003
  Op("notify", "", {}, 0),               \* 11  4005
  Op("lock", "cond", {}, 0),             \* 12  3584 -> 3472
  Op("call", "detach", {}, 0),           \* 13  3473
  Op("unlock", "cond", {}, 0),           \* 14  3478
  Op("rd", "attached_waitset", {}, 0),   \* 15  3629
  Op("lock", "cond", {}, 0),             \* 16  3636
  Op("rd", "deleted", {}, 0),            \* 17  3637
  Op("call", "reset_statuses", {}, 0),   \* 18  3643
  Op("call", "enable_statuses", {}, 0),  \* 19  3648
  Op("call", "attach", {}, 0),           \* 20  3653
  Op("call", "attach_data", {}, 0),      \* 21  3658
  Op("unlock", "cond", {}, 0),           \* 22  3663
  Op("lock", "ws", {}, 0),               \* 23  4068
  Op("set", BLOCKED, {}, 0),             \* 24  4069
  Op("unlock", "ws", {}, 0),             \* 25  4070
  Op("notify", "", {}, 0),               \* 26  4072
  Op("lock", "ws", {}, 0),               \* 27  4084
  Op("set", RELEASING, {}, 0),           \* 28  4085
  Op("unlock", "ws", {}, 0),             \* 29  4086
  Op("notify", "", {}, 0),               \* 30  4088
  Op("rd", "deleted", {}, 0),            \* 31  3898
  Op("lock", "ws", {}, 0),               \* 32  4025
  Op("set", FREE, {}, 0),                \* 33  4026
  Op("unlock", "ws", {}, 0),             \* 34  4027
  Op("notify", "", {}, 0),               \* 35  4029
  Op("ret", "", {}, 0) >>                \* 36  4107

\* RMW_Connext_WaitSet::invalidate() of a condition the wait-set lists
InvalidateProgram == <<
  Op("lock", "ws", {}, 0),               \*  1  4114
  Op("br", "", {FREE}, 5),               \*  2  4126
  Op("br", "", {ACQUIRING}, 17),         \*  3  4145
  Op("br", "", WaitSetStates, 15),       \*  4  4145
  Op("set", INVALIDATING, {}, 0),        \*  5  4127
  Op("unlock", "ws", {}, 0),             \*  6  4128
  Op("lock", "cond", {}, 0),             \*  7  4130 -> 3472
  Op("call", "detach", {}, 0),           \*  8  3473
  Op("unlock", "cond", {}, 0),           \*  9  3478
  Op("lock", "ws", {}, 0),               \* 10  4135
  Op("set", FREE, {}, 0),                \* 11  4136
  Op("unlock", "ws", {}, 0),             \* 12  4137
  Op("notify", "", {}, 0),               \* 13  4138
  Op("ret", "", {}, 0),                  \* 14  4139
  Op("unlock", "ws", {}, 0),             \* 15  4147
  Op("ret", "", {}, 0),                  \* 16  4147
  Op("park", "ws", {}, 0),               \* 17  4152 state_cond.wait(lock)
  Op("lock", "ws", {}, 0),               \* 18  4152 woken, mutex taken again
  Op("unlock", "ws", {}, 0),             \* 19  4159
  Op("ret", "", {}, 0) >>                \* 20  4159

Program(f) == IF f = "wait" THEN WaitProgram ELSE InvalidateProgram

\* the statement thread t is about to run
LkOp(t) == Program(lk_fn[t])[lk_pc[t]]

Running(t, k) == lk_fn[t] # "idle" /\ LkOp(t).k = k

LkAdvance(t) == lk_pc' = [lk_pc EXCEPT ![t] = @ + 1]

\* a thread calls wait() or invalidate()
LkCall(t, f) ==
  /\ lk_fn[t] = "idle"
  /\ lk_fn' = [lk_fn EXCEPT ![t] = f]
  /\ lk_pc' = [lk_pc EXCEPT ![t] = 1]
  /\ UNCHANGED <<lk_state, held, lk_parked, owed>>
  /\ UNCHANGED <<coordvars, epvars, triggers, loanvars, timevars>>

\* std::unique_lock / std::lock_guard constructed, or the mutex taken
\* again by state_cond.wait() once the thread was woken
LkLock(t) ==
  /\ Running(t, "lock")
  /\ held[LkOp(t).m] = NULL
  /\ t \notin lk_parked
  /\ held' = [held EXCEPT ![LkOp(t).m] = t]
  /\ LkAdvance(t)
  /\ UNCHANGED <<lk_state, lk_fn, lk_parked, owed>>
  /\ UNCHANGED <<coordvars, epvars, triggers, loanvars, timevars>>

\* end of the lock's scope, or lock.unlock()
LkUnlock(t) ==
  /\ Running(t, "unlock")
  /\ held' = [held EXCEPT ![LkOp(t).m] = NULL]
  /\ LkAdvance(t)
  /\ UNCHANGED <<lk_state, lk_fn, lk_parked, owed>>
  /\ UNCHANGED <<coordvars, epvars, triggers, loanvars, timevars>>

\* switch (this->state) and the if statements on it
LkBranch(t) ==
  /\ Running(t, "br")
  /\ lk_pc' = [lk_pc EXCEPT ![t] = IF lk_state \in LkOp(t).on
                                     THEN LkOp(t).to ELSE @ + 1]
  /\ UNCHANGED <<lk_state, lk_fn, held, lk_parked, owed>>
  /\ UNCHANGED <<coordvars, epvars, triggers, loanvars, timevars>>

\* this->state = ...
LkSetState(t) ==
  /\ Running(t, "set")
  /\ lk_state' = LkOp(t).m
  /\ owed' = [owed EXCEPT ![t] = TRUE]
  /\ LkAdvance(t)
  /\ UNCHANGED <<lk_fn, held, lk_parked>>
  /\ UNCHANGED <<coordvars, epvars, triggers, loanvars, timevars>>

\* state_cond.notify_all()
LkNotify(t) ==
  /\ Running(t, "notify")
  /\ lk_parked' = {}
  /\ owed' = [owed EXCEPT ![t] = FALSE]
  /\ LkAdvance(t)
  /\ UNCHANGED <<lk_state, lk_fn, held>>
  /\ UNCHANGED <<coordvars, epvars, triggers, loanvars, timevars>>

\* state_cond.wait(lock): the mutex is released and the thread sleeps
LkPark(t) ==
  /\ Running(t, "park")
  /\ held' = [held EXCEPT ![LkOp(t).m] = NULL]
  /\ lk_parked' = lk_parked \cup {t}
  /\ LkAdvance(t)
  /\ UNCHANGED <<lk_state, lk_fn, owed>>
  /\ UNCHANGED <<coordvars, epvars, triggers, loanvars, timevars>>

\* a field of the condition is read or written, or one of its methods is
\* called
LkAccess(t) ==
  /\ Running(t, "rd") \/ Running(t, "wr") \/ Running(t, "call")
  /\ LkAdvance(t)
  /\ UNCHANGED <<lk_state, lk_fn, held, lk_parked, owed>>
  /\ UNCHANGED <<coordvars, epvars, triggers, loanvars, timevars>>

LkReturn(t) ==
  /\ Running(t, "ret")
  /\ lk_fn' = [lk_fn EXCEPT ![t] = "idle"]
  /\ lk_pc' = [lk_pc EXCEPT ![t] = 1]
  /\ owed' = [owed EXCEPT ![t] = FALSE]
  /\ UNCHANGED <<lk_state, held, lk_parked>>
  /\ UNCHANGED <<coordvars, epvars, triggers, loanvars, timevars>>

NextLocks ==
  \/ \E t \in Threads, f \in {"wait", "invalidate"} : LkCall(t, f)
  \/ \E t \in Threads : LkLock(t)
  \/ \E t \in Threads : LkUnlock(t)
  \/ \E t \in Threads : LkBranch(t)
  \/ \E t \in Threads : LkSetState(t)
  \/ \E t \in Threads : LkNotify(t)
  \/ \E t \in Threads : LkPark(t)
  \/ \E t \in Threads : LkAccess(t)
  \/ \E t \in Threads : LkReturn(t)

SpecLocks == Init /\ [][NextLocks]_vars

\* the requests a service can hold: a request id and a payload
TakenRequests ==
  [id : {Handle(c, sn) : c \in Clients, sn \in 1..MaxSteps}, payload : Payloads]

\* request/reply between clients and services that exist
NextRR ==
  \/ \E c \in Clients, P \in Payloads, ok \in BOOLEAN : SendRequest(c, P, ok)
  \/ \E s \in Services : TakeRequest(s)
  \/ \E s \in Services, rq \in TakenRequests, R \in Replies, ok \in BOOLEAN :
       SendResponse(s, rq, R, ok)
  \/ \E c \in Clients, expect \in 1..MaxSteps : TakeResponse(c, expect)

InitRR == InitWaitSets /\ InitMatched

SpecRR == InitRR /\ [][NextRR]_vars

\* creation, discovery and destruction of one client and two services
OneClient == {"C1"}

NextEndpoints ==
  \/ \E c \in OneClient, stage \in CreateStages, f1 \in FinalizeFaults :
       ClientCreate(c, stage, f1)
  \/ \E s \in Services, stage \in CreateStages : ServiceCreate(s, stage)
  \/ \E c \in OneClient, f1, f2 \in FinalizeFaults : ClientFinalize(c, f1, f2)
  \/ \E s \in Services, f1, f2 \in FinalizeFaults : ServiceFinalize(s, f1, f2)
  \/ \E w, r \in Endpoints : Discovery(w, r)
  \/ \E c \in OneClient : IsServiceAvailable(c)

SpecEndpoints == Init /\ [][NextEndpoints]_vars

\* ------------------------------------------------------ the timeout
\* a 64-bit unsigned number (the fields of rmw_time_t) as four 16-bit
\* digits, the most significant first
INT32_MAX == <<0, 0, 32767, 65535>>
UINT32_MAX == <<0, 0, 65535, 65535>>

Greater(a, b) ==
  \E i \in 1..4 : a[i] > b[i] /\ \A j \in 1..(i - 1) : a[j] = b[j]

\* static_cast to DDS_Long or DDS_UnsignedLong: the low 32 bits
static_cast_32(a) == <<a[3], a[4]>>

\* the number a DDS_Long holds (sign-extended), and a DDS_UnsignedLong
DDS_Long_value(d) == IF d[1] >= 32768 THEN <<65535, 65535, d[1], d[2]>> ELSE <<0, 0, d[1], d[2]>>
DDS_UnsignedLong_value(d) == <<0, 0, d[1], d[2]>>

\* the duration of a wait() the engine has not been called for
NoDuration == [given |-> FALSE, sec |-> <<0, 0>>, nanosec |-> <<0, 0>>]

\* DDS_DURATION_INFINITE: 0x7fffffff seconds and nanoseconds
DDS_DURATION_INFINITE ==
  [given |-> TRUE, sec |-> <<32767, 65535>>, nanosec |-> <<32767, 65535>>]

\* a null timeout argument
NoTimeout == [null |-> TRUE, sec |-> <<0, 0, 0, 0>>, nsec |-> <<0, 0, 0, 0>>]

\* a conversion that does not look at the range
rmw_connextdds_duration_from_ros_time_unchecked(ros_time) ==
  [rc |-> RET_OK,
   duration |-> [given |-> TRUE, sec |-> static_cast_32(ros_time.sec),
                 nanosec |-> static_cast_32(ros_time.nsec)]]

\* rmw_connextdds_duration_from_ros_time
rmw_connextdds_duration_from_ros_time(ros_time) ==
  IF Greater(ros_time.sec, INT32_MAX) \/ Greater(ros_time.nsec, UINT32_MAX)
  THEN [rc |-> RET_ERROR, duration |-> NoDuration]
  ELSE [rc |-> RET_OK,
        duration |-> [given |-> TRUE, sec |-> static_cast_32(ros_time.sec),
                      nanosec |-> static_cast_32(ros_time.nsec)]]

\* the values of the fields of a timeout that are tried: around 2^31 for
\* the seconds, around 2^32 for the nanoseconds
SecValues == {<<0, 0, 0, 5>>, INT32_MAX, <<0, 0, 32768, 0>>, <<0, 1, 0, 5>>}
NsecValues == {<<0, 0, 0, 0>>, <<0, 0, 32768, 0>>, UINT32_MAX, <<0, 1, 0, 0>>}

\* the timeout argument of wait(): null, or a rmw_time_t
WaitTimeouts == {NoTimeout} \cup [null : {FALSE}, sec : SecValues, nsec : NsecValues]

\* RMW_Connext_WaitSet::wait between attach() and the engine call, with the
\* timeout it was called with: the timeout is converted, the state becomes
\* BLOCKED and the engine is given the duration
PreBlockTimed(t, tmo) ==
  /\ pc[t] = "pre_block"
  /\ wait_timeout' = [wait_timeout EXCEPT ![t] = tmo]
  /\ \/ /\ events < MaxEvents
        /\ events' = events + 1
        /\ ErrorExit(t)
        /\ wait_duration' = [wait_duration EXCEPT ![t] = NoDuration]
     \/ LET conv == IF tmo.null
                    THEN [rc |-> RET_OK, duration |-> DDS_DURATION_INFINITE]
                    ELSE rmw_connextdds_duration_from_ros_time(tmo)
        IN /\ UNCHANGED events
           /\ wait_duration' = [wait_duration EXCEPT ![t] = conv.duration]
           /\ IF conv.rc # RET_OK
              THEN ErrorExit(t)
              ELSE /\ state' = [state EXCEPT ![tw[t]] = BLOCKED]
                   /\ notified' = notified \cup Parked(tw[t])
                   /\ pc' = [pc EXCEPT ![t] = "blocked"]
  /\ UNCHANGED <<attached, attached_events_cache, native, active_conditions,
                 condvars, envvars, callvars, invvars, last, waits>>
  /\ UNCHANGED <<epvars, triggers, lockvars, loanvars>>

\* the requests of the wait() calls whose timeout is followed
TimedRequests == {r \in Requests : TotalLen(r) = Len(r["srvs"])}

\* wait() calls of the threads on W1 with every timeout
NextTimeout ==
  \/ \E t \in Threads, r \in TimedRequests : WaitEnter(t, "W1", r)
  \/ \E t \in Threads : AttachBegin(t)
  \/ \E t \in Threads : AttachElem(t)
  \/ \E t \in Threads, tmo \in WaitTimeouts : PreBlockTimed(t, tmo)
  \/ \E t \in Threads : WaitWake(t)
  \/ \E t \in Threads : WaitProcess(t)
  \/ \E t \in Threads : ExitDetach(t)

SpecTimeout == Init /\ [][NextTimeout]_vars

\* ------------------------------------------------------ loans of a reader
\* bound on the samples that arrive at the reader
MaxSamples == 4

\* bound on max_samples of a take
MaxTake == 2

\* a sample as take_next sees it: info->valid_data, and what
\* rmw_connextdds_filter_sample says of it
Samples == [valid : BOOLEAN, accept : BOOLEAN]

\* the call that fails during a take_next, if any (the first time it is made)
TakeFaults ==
  {"none", "take_samples", "return_samples", "set_data_available", "filter", "copy"}

\* the subscriber as a take_next call sees and leaves it; out is the
\* caller's array, fault the failure still to come
LoanState(fault) ==
  [len |-> loan_len, next |-> loan_next, loaned |-> loaned, avail |-> data_available,
   out |-> <<>>, fault |-> fault, rc |-> RET_OK]

\* status_condition.set_data_available(v)
set_data_available(st, v) ==
  IF st.fault = "set_data_available"
  THEN [st EXCEPT !.fault = "none", !.rc = RET_ERROR]
  ELSE [st EXCEPT !.avail = v]

\* RMW_Connext_Subscriber::return_messages: the loan is forgotten first,
\* a failure of return_samples does not stop the call
return_messages(st) ==
  LET a == [st EXCEPT !.len = 0, !.next = 0]
      b == IF a.fault = "return_samples"
           THEN [a EXCEPT !.fault = "none", !.rc = RET_ERROR]
           ELSE a
  IN set_data_available(b, FALSE)

\* RMW_Connext_Subscriber::loan_messages: rmw_connextdds_take_samples takes
\* every sample the reader has
loan_messages(st) ==
  IF st.fault = "take_samples"
  THEN [st EXCEPT !.fault = "none", !.rc = RET_ERROR]
  ELSE LET a == [st EXCEPT !.len = Len(history) - st.loaned, !.loaned = Len(history)]
       IN set_data_available(a, a.len > 0)

\* a loan_messages_if_needed that gives up a loan it has not consumed
loan_messages_if_needed_always(st) ==
  LET r == IF st.len > 0 THEN return_messages(st) ELSE st
  IN IF r.rc # RET_OK THEN r ELSE loan_messages(r)

\* RMW_Connext_Subscriber::loan_messages_if_needed: a loan that is not
\* consumed is kept; a consumed one is returned and a new one taken
loan_messages_if_needed(st) ==
  IF st.len > 0 /\ st.next < st.len
  THEN st
  ELSE LET r == IF st.len > 0 THEN return_messages(st) ELSE st
       IN IF r.rc # RET_OK THEN r ELSE loan_messages(r)

\* position in history of the sample at loan_next
LoanAt(st) == st.loaned - st.len + st.next + 1

\* the for loop of take_next over the loan
RECURSIVE take_loan(_, _)
take_loan(st, max_samples) ==
  IF Len(st.out) >= max_samples \/ st.next >= st.len
  THEN st
  ELSE LET smp == history[LoanAt(st)]
           skip == [st EXCEPT !.next = @ + 1]
       IN IF ~smp.valid THEN take_loan(skip, max_samples)
          ELSE IF st.fault = "filter"
          THEN [st EXCEPT !.fault = "none", !.rc = RET_ERROR]
          ELSE IF ~smp.accept THEN take_loan(skip, max_samples)
          ELSE IF st.fault = "copy"
          THEN [st EXCEPT !.fault = "none", !.rc = RET_ERROR]
          ELSE take_loan([skip EXCEPT !.out = Append(@, LoanAt(st))], max_samples)

\* RMW_Connext_Subscriber::take_next, with the loan mutex held from the
\* first statement to the return
RECURSIVE Subscriber_take_next(_, _)
Subscriber_take_next(st, max_samples) ==
  IF Len(st.out) >= max_samples
  THEN IF st.len > 0 /\ st.next >= st.len THEN return_messages(st) ELSE st
  ELSE LET a == loan_messages_if_needed(st)
       IN IF a.rc # RET_OK \/ a.len = 0
          THEN a
          ELSE LET b == take_loan(a, max_samples)
               IN IF b.rc # RET_OK THEN b ELSE Subscriber_take_next(b, max_samples)

\* RMW_Connext_Subscriber::has_data: the subscriber after
\* loan_messages_if_needed; the answer is false when that fails
Subscriber_has_data(st) == loan_messages_if_needed(st)

has_data_value(st) == st.rc = RET_OK /\ st.len > 0

\* the subscriber after a call that left it as st
LoanCommit(st) ==
  /\ loan_len' = st.len
  /\ loan_next' = st.next
  /\ loaned' = st.loaned
  /\ data_available' = st.avail

\* a sample arrives at the reader (on_data_available is not followed)
LoanArrive(smp) ==
  /\ Len(history) < MaxSamples
  /\ history' = Append(history, smp)
  /\ UNCHANGED <<loaned, loan_len, loan_next, data_available, delivered, took>>
  /\ UNCHANGED <<coordvars, epvars, triggers, lockvars, timevars>>

\* a call of take_next
LoanTake(max_samples, fault) ==
  LET st == Subscriber_take_next(LoanState(fault), max_samples)
  IN /\ st.fault = "none"
     /\ LoanCommit(st)
     /\ delivered' = delivered \o st.out
     /\ took' = [op |-> "take_next", max_samples |-> max_samples, taken |-> st.out,
                 rc |-> st.rc, has_data |-> FALSE]
     /\ UNCHANGED history
     /\ UNCHANGED <<coordvars, epvars, triggers, lockvars, timevars>>

\* a call of has_data(), as process_wait() makes it
LoanHasData(fault) ==
  LET st == Subscriber_has_data(LoanState(fault))
  IN /\ st.fault = "none"
     /\ fault \notin {"filter", "copy"}
     /\ LoanCommit(st)
     /\ took' = [op |-> "has_data", max_samples |-> 0, taken |-> <<>>,
                 rc |-> st.rc, has_data |-> has_data_value(st)]
     /\ UNCHANGED <<history, delivered>>
     /\ UNCHANGED <<coordvars, epvars, triggers, lockvars, timevars>>

NextLoan ==
  \/ \E smp \in Samples : LoanArrive(smp)
  \/ \E max_samples \in 0..MaxTake, fault \in TakeFaults : LoanTake(max_samples, fault)
  \/ \E fault \in TakeFaults : LoanHasData(fault)

SpecLoan == Init /\ [][NextLoan]_vars

\* destruction of one client and two services that exist, with the calls
\* made again after an ERROR
NextDestroy ==
  \/ \E c \in OneClient, f1, f2 \in FinalizeFaults : ClientFinalize(c, f1, f2)
  \/ \E s \in Services, f1, f2 \in FinalizeFaults : ServiceFinalize(s, f1, f2)
  \/ \E c \in OneClient, f1, f2 \in FinalizeFaults, g \in DanglingOutcomes :
       ClientFinalizeAgain(c, f1, f2, g)
  \/ \E s \in Services, f1, f2 \in FinalizeFaults, g \in DanglingOutcomes :
       ServiceFinalizeAgain(s, f1, f2, g)

SpecDestroy == InitRR /\ [][NextDestroy]_vars

\* publishers and subscribers created one by one, each call failing at any
\* of its steps or at none
NextCreate ==
  \/ \E e \in CreateEntities, stage \in PubStages, made \in MadeSets :
       PublisherCreate(e, stage, made)
  \/ \E e \in CreateEntities, stage \in SubStages, made \in MadeSets,
        cft_rc \in CftResults, kept \in BOOLEAN :
       SubscriberCreate(e, stage, made, cft_rc, kept)

SpecCreate == Init /\ [][NextCreate]_vars

\* an engine without content filters (the build that emulates
\* request/reply): rmw_connextdds_create_contentfilteredtopic answers
\* UNSUPPORTED or fails
NoFilterResults == {"none", "UNSUPPORTED", "ERROR"}

\* two clients and service S1 exist and are matched, service S2 does not
\* exist yet
InitFallback ==
  /\ InitWaitSets
  /\ emulate = TRUE
  /\ engine = [ep \in Endpoints |-> IF ep[1] = "S2" THEN {} ELSE Parts]
  /\ heap = {ep \in Endpoints : ep[1] # "S2"}
  /\ impl = [e \in Entities |-> IF e = "S2" THEN "none" ELSE "live"]
  /\ matched = FullMatch({"S1"})
  /\ cache = [ep \in Endpoints |-> <<>>]
  /\ next_request_id = [c \in Clients |-> 0]
  /\ writer_sn = [c \in Clients |-> 0]
  /\ pending = [s \in Services |-> {}]
  /\ sent = [c \in Clients |-> <<>>]
  /\ answered = {}
  /\ result = NoResult
  /\ steps = 0

\* request/reply without content filters, while a reader is created
NextFallback ==
  \/ \E c \in Clients, P \in Payloads, ok \in BOOLEAN : SendRequest(c, P, ok)
  \/ \E s \in Services : TakeRequest(s)
  \/ \E s \in Services, rq \in TakenRequests, R \in Replies, ok \in BOOLEAN :
       SendResponse(s, rq, R, ok)
  \/ \E c \in Clients, expect \in 1..MaxSteps : TakeResponse(c, expect)
  \/ \E stage \in SubStages, cft_rc \in NoFilterResults, kept \in BOOLEAN :
       SubscriberCreate("S2", stage, {"type", "topic"}, cft_rc, kept)

SpecFallback == InitFallback /\ [][NextFallback]_vars

\* ================================================================ properties
SectionStates == {ACQUIRING, BLOCKED, RELEASING}

\* thread t is inside wait() between the entry critical section and the
\* transition back to FREE (a nested invalidate() made by attach() included)
InWait(t) ==
  \/ pc[t] \in {"attach", "attach_elem", "attach_locked", "pre_block", "blocked", "process"}
  \/ pc[t] \in {"inv_enter", "inv_detach", "inv_release", "inv_block"} /\ ctx[t] = "attach"

Owners(w) == {t \in Threads : InWait(t) /\ tw[t] = w}

AllNull(a) == \A k \in KindSet : \A i \in 1..Len(a[k]) : a[k][i] = NULL

\* thread t returns from wait() in this step
Returns(t) == pc[t] \in {"process", "exit_detach", "enter_blocked"} /\ pc'[t] = "idle"

\* a wait() call is rejected at entry in this step
Rejected == waits' = waits + 1 /\ pc' = pc

\* ---- C1
AtMostOneOwner == \A w \in Waitsets : Cardinality(Owners(w)) <= 1

\* C1: at most one thread is inside the ACQUIRING/BLOCKED/RELEASING section of
\* a wait-set (so at most one reaches BLOCKED); a wait() that finds the state
\* ACQUIRING, BLOCKED or RELEASING returns ERROR in that same step, leaving
\* the state, the attached lists and the native wait-set as they were, and a
\* wait() that finds such a state is never let in
C1_MutualExclusion ==
  /\ AtMostOneOwner
  /\ [][/\ AtMostOneOwner'
        /\ Rejected =>
             /\ state[last'.w] \in SectionStates
             /\ last'.ret = RET_ERROR
             /\ UNCHANGED <<state, attached, attached_events_cache, native, attached_waitset>>
        /\ \A t \in Threads :
             waits' = waits + 1 /\ pc'[t] # pc[t] => state[tw'[t]] \notin SectionStates
       ]_vars

\* a second wait() was rejected while t1 is blocked on the same wait-set
C1_Witness ==
  /\ pc["t1"] = "blocked" /\ pc["t2"] = "idle"
  /\ waits = 2 /\ events = 0
  /\ last.ret = RET_ERROR /\ last.w = tw["t1"]
  /\ attached[tw["t1"]]["subs"] = <<"s1">> /\ last.arr["gcs"] = <<"g1">>

\* ---- C2
\* C2: each condition is listed by at most one wait-set, and its
\* back-reference is W exactly when W lists it
C2_SingleAttachment ==
  \A c \in Conds :
    /\ Cardinality({w \in Waitsets : is_attached(w, c)}) <= 1
    /\ \A w \in Waitsets : attached_waitset[c] = w <=> is_attached(w, c)

\* ---- C3
\* C3: a wait() whose wait-set lists a condition that was marked deleted while
\* the wait-set was BLOCKED leaves process_wait() by the error return, and
\* process_wait() does not run on a listed entity that has been deleted
C3_InvalidationSafety ==
  [][\A t \in Threads :
       pc[t] = "process" /\ pc'[t] # "process" =>
         \A c \in marked_blocked :
           is_attached(tw[t], c) => pc'[t] = "exit_detach" /\ alive[c]
    ]_vars

\* ---- C4
\* C4: when finalize() of a publisher or subscriber deletes the writer or
\* reader and returns, no wait-set lists the entity's condition
C4_DestructionClearsReference ==
  [][\A t \in Threads :
       pc[t] = "fin_delete" /\ pc'[t] = "idle" /\ fin[t] \notin Universe["gcs"] =>
         \A w \in Waitsets : ~is_attached(w, fin[t])
    ]_vars

\* ---- C5
OwnedWhenTaken == \A w \in Waitsets : state[w] \in SectionStates => Owners(w) # {}

NoneReady(w) ==
  \A k \in KindSet : \A i \in 1..Len(attached[w][k]) :
    ~SourceReady(w, k, attached[w][k][i], FALSE)

NoneDeleted(w) ==
  \A c \in Conds : is_attached(w, c) => alive[c] /\ ~deleted[c]

\* C6: when the engine wait timed out, no attached source is ready at
\* demultiplexing and no attached condition is marked deleted, wait() returns
\* TIMEOUT with every entry of the five arrays null
C6_TimeoutAllNull ==
  [][\A t \in Threads :
       /\ pc[t] = "process" /\ pc'[t] # "process"
       /\ wait_rc[t] = RET_TIMEOUT
       /\ NoneReady(tw[t]) /\ NoneDeleted(tw[t])
       /\ events' = events
       => pc'[t] = "idle" /\ last'.ret = RET_TIMEOUT /\ AllNull(last'.arr)
    ]_vars

\* ---- C7
\* C7: a wait() that returns TIMEOUT has nulled every entry, one that returns
\* OK has left an entry, and the result is OK, TIMEOUT or ERROR
C7_TimeoutMeansNoneReady ==
  [][/\ (Rejected \/ \E t \in Threads : Returns(t)) =>
          /\ last'.ret \in {RET_OK, RET_TIMEOUT, RET_ERROR}
          /\ last'.ret = RET_TIMEOUT => AllNull(last'.arr)
          /\ last'.ret = RET_OK => ~AllNull(last'.arr)
    ]_vars

\* ---- C8
\* C8: a guard condition that a wait() returning OK leaves in its array was
\* triggered when demultiplexing began and is not triggered any more when the
\* wait() returns, so that one trigger is reported by one wait() at most
C8_TriggerReportedOnce ==
  [][\A t \in Threads :
       Returns(t) /\ last'.ret = RET_OK =>
         \A x \in Range(last'.arr["gcs"]) \ {NULL} :
           trigger_value[x] /\ ~trigger_value'[x]
    ]_vars

\* ---- C9
\* C9: when wait() returns (OK, TIMEOUT or ERROR), each of the five arrays has
\* the length the caller gave it, and its entry i is the caller's entry i or
\* null
C9_PositionsKept ==
  [][\A t \in Threads :
       Returns(t) =>
         \A k \in KindSet :
           /\ Len(last'.arr[k]) = Len(req[t][k])
           /\ \A i \in 1..Len(req[t][k]) : last'.arr[k][i] \in {req[t][k][i], NULL}
    ]_vars

\* wait() on [s1, s2] has returned OK with s1 nulled and s2 still second
C9_Witness ==
  /\ last.ret = RET_OK
  /\ last.arr["subs"] = <<NULL, "s2">>
  /\ \A t \in Threads : pc[t] = "idle"

\* ---- C10
\* C10: a wait() whose five arrays equal the attached lists, position by
\* position, goes through attach() without any detach, reset_statuses,
\* enable_statuses or attach, and leaves the lists, the event cache, the
\* native wait-set and the back-references unchanged
C10_IdempotentAttach ==
  [][\A t \in Threads :
       pc[t] = "attach" /\ pc'[t] # "attach" /\ attached[tw[t]] = req[t] =>
         /\ probe'[t] = probe[t]
         /\ pc'[t] = "pre_block"
         /\ UNCHANGED <<attached, attached_events_cache, native, attached_waitset>>
    ]_vars

\* the second wait() on [s1, s2] has gone through attach() after the first
\* one returned TIMEOUT
C10_Witness ==
  /\ pc["t1"] = "pre_block" /\ pc["t2"] = "idle"
  /\ waits = 2 /\ probe["t1"] = 0
  /\ tw["t1"] = last.w /\ last.ret = RET_TIMEOUT
  /\ req["t1"]["subs"] = <<"s1", "s2">>
  /\ attached[tw["t1"]]["subs"] = <<"s1", "s2">>

\* ========================================= properties of request and reply
\* the request id a reader's sample carries
SampleId(sample) == request_id(read_header(sample))

\* the numbers send_request has returned on client c
SentNumbers(c) == {sent[c][i].sn : i \in 1..Len(sent[c])}

\* the replies in the reply reader of c that answer a request of c
OwnReplies(c) ==
  {i \in 1..Len(cache[reply_sub(c)]) :
     SampleId(cache[reply_sub(c)][i]).writer_guid = Handle(c, 0).writer_guid}

\* ---- C11
\* what a take has returned is what was sent: a taken request carries the
\* payload and the handle of a send_request, a taken reply the payload and
\* the request id of a send_response and the handle of a request of the taker
RoundTripTaken ==
  /\ result.op = "take_request" /\ result.taken =>
       \E c \in Clients : \E i \in 1..Len(sent[c]) :
         /\ result.id = Handle(c, sent[c][i].sn)
         /\ result.payload = sent[c][i].payload
  /\ result.op = "take_response" /\ result.taken =>
       /\ [id |-> result.id, payload |-> result.payload] \in answered
       /\ result.id.writer_guid = Handle(result.who, 0).writer_guid
       /\ result.id.sequence_number \in SentNumbers(result.who)

\* a reply written for a request of a matched client reaches that client's
\* reply reader, and a take_response on a reader holding a reply for the
\* client returns taken = true with the first such reply
RoundTripStep ==
  /\ result'.op = "send_response" /\ result'.rc = RET_OK =>
       \A c \in Clients :
         /\ result'.id.writer_guid = Handle(c, 0).writer_guid
         /\ <<reply_pub(result'.who), reply_sub(c)>> \in matched
         => LET q == cache'[reply_sub(c)] IN
              /\ Len(q) = Len(cache[reply_sub(c)]) + 1
              /\ SampleId(q[Len(q)]) = result'.id
              /\ q[Len(q)].payload = result'.payload
  /\ \A c \in Clients :
       result'.op = "take_response" /\ result'.who = c /\ OwnReplies(c) # {} =>
         LET i == CHOOSE i \in OwnReplies(c) : \A j \in OwnReplies(c) : i <= j
         IN /\ result'.taken
            /\ result'.id = SampleId(cache[reply_sub(c)][i])
            /\ result'.payload = cache[reply_sub(c)][i].payload

\* C11: a request sent with payload P and handle H is taken by the service
\* as (P, H), and the reply R sent for H is taken by the client as (R, H)
C11_CorrelationRoundTrip ==
  RoundTripTaken /\ [][RoundTripTaken' /\ RoundTripStep]_vars

C11_Witness ==
  /\ result.op = "take_response" /\ result.taken
  /\ result.payload \in Replies
  /\ result.id.sequence_number \in SentNumbers(result.who)

\* ---- C12
\* C12: a reply a client takes carries the identity of that client's own
\* request publisher as related origin, never the one of another client
C12_FilterIsolation ==
  result.op = "take_response" /\ result.taken =>
    /\ result.id.writer_guid = publisher_gid(request_pub(result.who)).guid
    /\ \A c \in Clients \ {result.who} :
         result.id.writer_guid # publisher_gid(request_pub(c)).guid

\* without a content-filtered topic the reply to a request of C2 has reached
\* the reply reader of C1, and a take_response of C1 has not returned it
C12_Witness ==
  /\ emulate
  /\ result.op = "take_response" /\ result.who = "C1" /\ ~result.taken
  /\ cache[reply_sub("C1")] = <<>>
  /\ <<reply_pub("S1"), reply_sub("C1")>> \in matched
  /\ \E a \in answered : a.id.writer_guid = publisher_gid(request_pub("C2")).guid

\* ---- C13
\* the numbers returned on one client increase in call order
SentIncreasing ==
  \A c \in Clients : \A i, j \in 1..Len(sent[c]) :
    i < j => sent[c][i].sn < sent[c][j].sn

\* the request written by a send_request that returned carries the identity
\* of the client's request publisher and the number returned
SentStamped ==
  \A c \in Clients :
    Len(sent'[c]) = Len(sent[c]) + 1 =>
      LET h == sent'[c][Len(sent'[c])] IN
        /\ result'.op = "send_request" /\ result'.id = Handle(c, h.sn)
        /\ h.sn \notin SentNumbers(c)
        /\ \A s \in Services :
             <<request_pub(c), request_sub(s)>> \in matched =>
               LET q == cache'[request_sub(s)] IN
                 /\ Len(q) = Len(cache[request_sub(s)]) + 1
                 /\ SampleId(q[Len(q)]) =
                      [writer_guid |-> publisher_gid(request_pub(c)).guid,
                       sequence_number |-> h.sn]
                 /\ q[Len(q)].payload = h.payload

OnePending(c) == Len(cache[reply_sub(c)]) = 1 /\ OwnReplies(c) = {1}

\* C14 as claimed: with the reply for H the only one pending, a take_response
\* made for another handle returns taken = false and leaves the reply
C14_HandleSelective ==
  [][\A c \in Clients :
       /\ result'.op = "take_response" /\ result'.who = c
       /\ OnePending(c)
       /\ result'.expect # SampleId(cache[reply_sub(c)][1]).sequence_number
       => ~result'.taken /\ cache' = cache
    ]_vars

\* C14 as the code has it: take_response is given no handle; with the reply
\* for H the only one pending it returns taken = true with the payload and
\* the handle H, whatever reply the caller is after, and consumes the reply,
\* so that the next take_response returns taken = false
C14_TakesNextReply ==
  [][\A c \in Clients :
       result'.op = "take_response" /\ result'.who = c =>
         /\ OnePending(c) =>
              /\ result'.taken
              /\ result'.id = SampleId(cache[reply_sub(c)][1])
              /\ result'.payload = cache[reply_sub(c)][1].payload
              /\ cache'[reply_sub(c)] = <<>>
         /\ cache[reply_sub(c)] = <<>> => ~result'.taken
    ]_vars

\* a reply was taken by a call made for another request
C14_Witness ==
  /\ result.op = "take_response" /\ result.taken
  /\ result.expect # result.id.sequence_number
  /\ cache[reply_sub(result.who)] = <<>>

\* ---- C15
\* the engine holds nothing of the endpoints of entity e and no publisher or
\* subscriber object of e is allocated
NoEndpoint(e) ==
  \A ep \in {<<e, "pub">>, <<e, "sub">>} : engine[ep] = {} /\ ep \notin heap

\* Client::create has just failed on c after the request publisher was
\* created
FailedAfterPublisher(c) ==
  /\ impl[c] = "null" /\ result.op = "create" /\ result.who = c
  /\ result.log \cap {"failed too allocate cft name",
                      "failed to create client replier"} # {}

\* C15 as claimed: after a Client::create that failed once the request
\* publisher existed, the publisher is finalized and deleted and the engine
\* holds no endpoint of the client
C15_ClientCreateAllOrNothing ==
  \A c \in Clients : impl[c] = "null" => NoEndpoint(c)

\* C15 as the code has it: the clean-up of a failed Client::create runs
\* finalize(); the request publisher is deleted and no endpoint of the client
\* is left when the engine deletes the writer, the topic and the type, and
\* otherwise the failure is logged, the publisher object stays allocated and
\* the engine keeps what it did not delete; the reply reader never exists
C15_ClientCreateFinalizes ==
  \A c \in Clients :
    impl[c] = "null" =>
      /\ "entity" \notin engine[reply_sub(c)] /\ reply_sub(c) \notin heap
      /\ request_pub(c) \in heap <=> engine[request_pub(c)] # {}
      /\ result.op = "create" /\ result.who = c =>
           (engine[request_pub(c)] = {}
              <=> "failed to finalize client" \notin result.log)

C15_Witness ==
  \E c \in Clients :
    /\ FailedAfterPublisher(c)
    /\ "failed to finalize client" \notin result.log
    /\ NoEndpoint(c)

\* ---- C16
\* C16: after a Service::create that failed, the reply publisher (writer,
\* topic and type registration) is torn down and the engine holds no endpoint
\* of the service
C16_ServiceCreateAllOrNothing ==
  \A s \in Services : impl[s] = "null" => NoEndpoint(s)

\* ---- C17
\* some one service is matched with client c on the request side and on the
\* reply side
MatchedBothSides(c) ==
  \E s \in Services :
    /\ <<request_pub(c), request_sub(s)>> \in matched
    /\ <<reply_pub(s), reply_sub(c)>> \in matched

\* C17: is_service_available reports true exactly when one service is matched
\* on both sides of the client
C17_AvailableIffMatchedBothSides ==
  [][\A c \in Clients :
       result'.op = "is_service_available" /\ result'.who = c /\ matched' = matched
       => (result'.available <=> MatchedBothSides(c))
    ]_vars

\* ---- C18
\* a trigger call made on a guard condition that is triggered already changes
\* nothing but the count of calls
TriggerIdempotent ==
  triggers' = triggers + 1 =>
    \E x \in Universe["gcs"] :
      /\ trigger_value' = [trigger_value EXCEPT ![x] = TRUE]
      /\ trigger_value[x] => UNCHANGED <<coordvars, epvars>>

\* a wait() that includes a triggered guard condition and does not fail
\* returns OK with its entry non-null and resets it; one that includes an
\* untriggered guard condition does not return OK with its entry non-null
TriggerReported ==
  \A t \in Threads :
    Returns(t) /\ last'.ret # RET_ERROR =>
      \A i \in 1..Len(req[t]["gcs"]) :
        LET x == req[t]["gcs"][i] IN
          IF trigger_value[x]
          THEN /\ last'.ret = RET_OK
               /\ last'.arr["gcs"][i] = x
               /\ ~trigger_value'[x]
          ELSE last'.ret = RET_OK => last'.arr["gcs"][i] = NULL

\* C18: n >= 1 trigger calls before a wait() leave the guard condition as one
\* call does; the next wait() that includes it (and does not fail for another
\* reason) returns OK with its entry non-null, and the wait() after that does
\* not report it
C18_TriggerIdempotent ==
  [][TriggerIdempotent /\ TriggerReported]_vars

\* ---- C19
\* the edges of the state machine of a wait-set
StateEdges ==
  {<<FREE, ACQUIRING>>, <<ACQUIRING, BLOCKED>>, <<BLOCKED, RELEASING>>,
   <<RELEASING, FREE>>, <<FREE, INVALIDATING>>, <<INVALIDATING, FREE>>}

\* the edges taken by the scope_exit of wait() on an error return
ErrorEdges == {<<ACQUIRING, FREE>>, <<BLOCKED, FREE>>}

\* t's wait() on w takes an error return in this step
ErrorReturn(t, w) ==
  /\ tw[t] = w
  /\ pc[t] \in {"attach", "attach_elem", "attach_locked", "pre_block", "blocked"}
  /\ pc'[t] = "exit_detach"

\* C19 as stated: the state of a wait-set changes only along FREE->ACQUIRING,
\* ACQUIRING->BLOCKED, BLOCKED->RELEASING, RELEASING->FREE, FREE->INVALIDATING
\* and INVALIDATING->FREE
C19_StateEdges ==
  [][\A w \in Waitsets :
       state'[w] # state[w] => <<state[w], state'[w]>> \in StateEdges]_vars

\* C19: the state of a wait-set changes only along the six edges, or from
\* ACQUIRING or BLOCKED straight to FREE in a step in which its wait() takes
\* an error return; INVALIDATING is entered only from FREE
C19_StateEdgesOrErrorReturn ==
  [][\A w \in Waitsets :
       state'[w] # state[w] =>
         \/ <<state[w], state'[w]>> \in StateEdges
         \/ /\ <<state[w], state'[w]>> \in ErrorEdges
            /\ \E t \in Threads : ErrorReturn(t, w)]_vars

\* a wait() has failed before the engine call: W1 is FREE again without
\* having been BLOCKED or RELEASING, its detach() still to come
C19_Witness ==
  /\ pc["t1"] = "exit_detach"
  /\ tw["t1"] = "W1"
  /\ wait_rc["t1"] = "NONE"
  /\ state["W1"] = FREE

\* ---- C20
\* a wait() call that finds its wait-set INVALIDATING blocks on state_cond
ParksOnInvalidating ==
  \A t \in Threads :
    pc[t] = "idle" /\ waits' = waits + 1 /\ tw'[t] \in Waitsets
      /\ state[tw'[t]] = INVALIDATING /\ pc'[t] # "idle" =>
        pc'[t] = "enter_blocked" /\ state' = state

\* t's wait() leaves state_cond.wait() in this step
Unparks(t) == pc[t] = "enter_blocked" /\ pc'[t] # "enter_blocked"

\* C20 as stated: a wait() that found its wait-set INVALIDATING returns ERROR
\* once unblocked and never goes on to ACQUIRING
C20_ParkedWaitReturnsError ==
  [][\A t \in Threads :
       Unparks(t) =>
         /\ pc'[t] = "idle"
         /\ last'.ret = RET_ERROR
         /\ state'[tw[t]] # ACQUIRING]_vars

\* C20: a wait() that finds its wait-set INVALIDATING blocks on the
\* state-change notification; once unblocked it goes on to ACQUIRING when the
\* wait-set is FREE, and returns ERROR, leaving the state alone, when it is not
C20_ParkedWaitRechecksState ==
  [][/\ ParksOnInvalidating
     /\ \A t \in Threads :
          Unparks(t) =>
            IF state[tw[t]] = FREE
            THEN /\ pc'[t] = "attach"
                 /\ state' = [state EXCEPT ![tw[t]] = ACQUIRING]
                 /\ UNCHANGED last
            ELSE /\ pc'[t] = "idle"
                 /\ last' = [w |-> tw[t], ret |-> RET_ERROR, arr |-> arr[t]]
                 /\ state' = state]_vars

\* a wait() blocked on an invalidation has been notified and finds its
\* wait-set FREE
C20_Witness ==
  \E t \in Threads :
    /\ pc[t] = "enter_blocked"
    /\ t \in notified
    /\ state[tw[t]] = FREE

\* ---- C21
\* t is inside the FREE branch of invalidate() on w
Invalidating(t, w) == pc[t] \in {"inv_detach", "inv_release"} /\ inv_ws[t] = w

\* the wait-set lists nothing and no condition refers back to it
Cleared(w) ==
  /\ attached[w] = EmptyLists
  /\ attached_events_cache[w] = {}
  /\ \A c \in Conds : attached_waitset[c] # w

\* the state is INVALIDATING from the first unlock of invalidate() to its
\* last critical section
InvalidatingHeld ==
  \A t \in Threads, w \in Waitsets : Invalidating(t, w) => state[w] = INVALIDATING

\* invalidate() takes a FREE wait-set that lists its condition, and only
\* that; nothing but its own last critical section ends INVALIDATING, and
\* that step finds the wait-set cleared and leaves it FREE
InvalidationStep ==
  \A w \in Waitsets :
    /\ state[w] # INVALIDATING /\ state'[w] = INVALIDATING =>
         /\ state[w] = FREE
         /\ \E t \in Threads :
              /\ pc[t] = "inv_enter" /\ pc'[t] = "inv_detach" /\ inv_ws[t] = w
              /\ is_attached(w, inv_c[t])
    /\ state[w] = INVALIDATING /\ state'[w] # INVALIDATING =>
         /\ state'[w] = FREE
         /\ Cleared(w)
         /\ \E t \in Threads : pc[t] = "inv_release" /\ inv_ws[t] = w
                               /\ pc'[t] # "inv_release"
    /\ state[w] = INVALIDATING =>
         \A t \in Threads :
           pc[t] \in {"idle", "enter_blocked"} /\ pc'[t] = "attach" => tw'[t] # w

InvalidateDuringWait(t) ==
  /\ pc[t] = "inv_enter" /\ pc'[t] # "inv_enter"
  /\ is_attached(inv_ws[t], inv_c[t])
  /\ state[inv_ws[t]] \in {BLOCKED, RELEASING}

\* C22: invalidate(C) called while C is attached and the wait-set is BLOCKED
\* or RELEASING returns ERROR, and the state, the five lists, the event cache
\* and the native wait-set are after the call what they were before
C22_InvalidateDuringWaitRefused ==
  [][\A t \in Threads :
       InvalidateDuringWait(t) =>
         /\ inv_ret'[t] = RET_ERROR
         /\ pc'[t] = AfterInvalidate(t)
         /\ UNCHANGED <<state, attached, attached_events_cache, native>>]_vars

\* a condition was destroyed while the wait-set that lists it was BLOCKED:
\* invalidate() has returned ERROR and the wait-set still lists it
C22_Witness ==
  \E t \in Threads :
    /\ pc[t] = "fin_delete" /\ inv_ret[t] = RET_ERROR
    /\ inv_c[t] \in marked_blocked
    /\ state[inv_ws[t]] \in {BLOCKED, RELEASING}
    /\ is_attached(inv_ws[t], inv_c[t])

\* ---- C23
\* t's invalidate() call finds its condition listed by a wait-set that is
\* ACQUIRING
InvalidateDuringAttach(t) ==
  /\ pc[t] = "inv_enter" /\ pc'[t] # "inv_enter"
  /\ is_attached(inv_ws[t], inv_c[t])
  /\ state[inv_ws[t]] = ACQUIRING

FailsToFree(t, w) ==
  /\ tw[t] = w /\ InWait(t)
  /\ pc'[t] = "exit_detach" \/ (pc'[t] = "idle" /\ last'.ret = RET_ERROR)
  /\ state[w] # FREE /\ state'[w] = FREE

\* C24: when wait() returns ERROR after having entered ACQUIRING, the state
\* goes back to FREE only once every condition is detached and the five
\* lists and the event cache are empty
C24_ClearedBeforeFree ==
  [][\A t \in Threads, w \in Waitsets :
       FailsToFree(t, w) =>
         /\ attached'[w] = EmptyLists
         /\ attached_events_cache'[w] = {}
         /\ \A c \in Conds : attached_waitset'[c] # w]_vars

\* ---- C25
\* C25: a wait() on one wait-set adds a condition to its lists only when no
\* other wait-set lists that condition any more, whatever state the other
\* wait-set is in
C25_MigrationDetachesFirst ==
  [][\A w \in Waitsets, c \in Conds :
       ~is_attached(w, c) /\ is_attached(w, c)' =>
         \A v \in Waitsets \ {w} : ~is_attached(v, c)']_vars

\* ---- C26
\* readiness of source x of kind k on wait-set w at demultiplexing time
ReadyAtDemux(w, k, x) ==
  IF k = "gcs" THEN x \in active_conditions[w]
  ELSE IF k = "evs" THEN status_active[x]
  ELSE has_data[x]

\* C26: when wait() returns OK or TIMEOUT, an entry of a subscription, client
\* or service array (of an entity that exists) is non-null exactly when the source had data at
\* demultiplexing time, an entry of the guard-condition array exactly when
\* the engine's active list holds the guard condition, and an entry of the
\* event array exactly when the status of the event is active
C26_ReadinessPerKind ==
  [][\A t \in Threads :
       pc[t] = "process" /\ pc'[t] = "idle" /\ last'.ret \in {RET_OK, RET_TIMEOUT} =>
         \A k \in KindSet : \A i \in 1..Len(req[t][k]) :
           alive[CondOf(k, req[t][k][i])] =>
             ((last'.arr[k][i] # NULL) <=> ReadyAtDemux(tw[t], k, req[t][k][i]))]_vars

\* ---- C27
\* process_wait() on w counts at least one active source
SomeActive(w) ==
  \E k \in KindSet : \E i \in 1..Len(attached[w][k]) :
    \E g \in BOOLEAN : SourceReady(w, k, attached[w][k][i], g)

\* C27: when process_wait() found no deleted condition and the engine wait
\* did not time out, the number of sources found active is greater than zero
C27_EndOfWaitAssertion ==
  [][\A t \in Threads :
       pc[t] = "process" /\ pc'[t] = "idle" /\ last'.ret = RET_OK =>
         SomeActive(tw[t])]_vars

\* ---- C28
\* t runs detach() on w in this step
DetachRuns(t, w) ==
  /\ pc'[t] # pc[t]
  /\ \/ pc[t] = "inv_detach" /\ inv_ws[t] = w
     \/ pc[t] = "exit_detach" /\ tw[t] = w
     \/ pc[t] = "attach" /\ tw[t] = w /\ refresh_attach(w, req[t])

\* conditions listed by w that are still in the native wait-set they were
\* attached to
LeftInEngine(w) ==
  {c \in Detachable(w) : c \in native'[attached_waitset[c]]}

\* detach() empties the five lists and the event cache, detaches every
\* condition but those whose detach failed, and fails exactly when a detach
\* failed
DetachAccumulates ==
  \A t \in Threads, w \in Waitsets :
    DetachRuns(t, w) =>
      /\ attached'[w] = EmptyLists
      /\ attached_events_cache'[w] = {}
      /\ \A c \in Conds : is_attached(w, c) => attached_waitset'[c] = NULL
      /\ Cardinality(LeftInEngine(w)) <= events' - events
      /\ pc[t] = "inv_detach" =>
           (inv_ret'[t] = RET_ERROR <=> events' # events)
      /\ pc[t] = "attach" =>
           (pc'[t] = "exit_detach" <=> events' # events)

\* process_wait() after a failed reset_trigger(): every entry of every array
\* is decided as in a call without failure, and the call fails
ProcessAccumulates ==
  \A t \in Threads :
    pc[t] = "process" /\ pc'[t] # "process" /\ events' # events =>
      /\ pc'[t] = "exit_detach"
      /\ \E g \in BOOLEAN :
           arr'[t] = [k \in KindSet |-> ProcessList(tw[t], k, arr[t][k], g)]

\* C28: detach() goes on after a failed detach, always empties the five
\* lists and the event cache and returns ERROR exactly when a detach failed;
\* process_wait() decides every attached source after a failed
\* reset_trigger() and reports ERROR at the end
C28_FailuresAccumulated ==
  [][DetachAccumulates /\ ProcessAccumulates]_vars

\* reset_trigger() of g1 has failed in process_wait(), and the entry of the
\* service, visited after the guard conditions, has been nulled all the same
C28_Witness ==
  \E t \in Threads :
    /\ pc[t] = "exit_detach" /\ wait_rc[t] = RET_OK /\ events = 1
    /\ arr[t]["gcs"] = <<"g1">>
    /\ arr[t]["srvs"] = <<NULL>>

\* ---- C29
\* thread t runs the statement it is at
Runs(t) == lk_fn[t] # "idle" /\ lk_pc'[t] # lk_pc[t]

\* the state is written with the wait-set's mutex held
StateWriteLocked(t) == LkOp(t).k = "set" => held["ws"] = t

\* a write of the state is followed by notify_all() before the thread
\* writes the state again or returns
StateWriteBroadcast(t) == LkOp(t).k \in {"set", "ret"} => ~owed[t]

\* the condition's fields and methods are used with its mutex held
ConditionLocked(t) == LkOp(t).k \in {"rd", "wr", "call"} => held["cond"] = t

\* C29: every write of the wait-set's state is made with the wait-set's
\* mutex held and is followed by a broadcast on state_cond, and every read
\* or write of a condition's attached_waitset/deleted and every attach,
\* detach, enable_statuses and reset_statuses on it is made with the
\* condition's mutex held.
C29_LockingDiscipline ==
  [][\A t \in Threads :
       Runs(t) => /\ StateWriteLocked(t)
                  /\ StateWriteBroadcast(t)
                  /\ ConditionLocked(t)]_vars

\* the parts of C29 the code keeps: state writes are made under the
\* wait-set's mutex and the condition's methods are called under the
\* condition's mutex
StateWritesAndCallsLocked ==
  [][\A t \in Threads :
       Runs(t) => /\ StateWriteLocked(t)
                  /\ (LkOp(t).k = "call" => held["cond"] = t)]_vars

\* ---- C30
\* thread t is inside invalidate()
InInvalidate(t) == pc[t] \in {"inv_enter", "inv_detach", "inv_release", "inv_block"}

\* C30: with every engine wait returning and fair scheduling, every
\* invalidate() returns and every wait() parked on an INVALIDATING wait-set
\* returns or goes on; two wait() calls on two wait-sets that each ask for
\* a condition attached to the other one do not block each other for ever.
C30_InvalidateReturns ==
  \A t \in Threads :
    /\ InInvalidate(t) ~> ~InInvalidate(t)
    /\ (pc[t] = "enter_blocked") ~> (pc[t] # "enter_blocked")

\* both threads asleep in the invalidate() of the other one's wait-set
MutualBlock ==
  /\ \A t \in Threads : pc[t] = "inv_block" /\ t \notin notified /\ ctx[t] = "attach"
  /\ inv_ws["t1"] = tw["t2"] /\ inv_ws["t2"] = tw["t1"]

\* ---- C31
\* a step of RMW_Connext_Service::send_response
SendResponseStep == result'.op = "send_response" /\ steps' = steps + 1

\* the header (origin, sequence) survives the conversion to the DDS sample
\* identity and back
HeaderRoundTrip(rr_msg) ==
  LET back == requestreply_header_from_dds(requestreply_header_to_dds(rr_msg))
  IN /\ back.gid.guid = rr_msg.gid.guid
     /\ back.sn = rr_msg.sn
     /\ requestreply_header_to_dds(rr_msg).request = rr_msg.request

\* the one message written for the handle H: a reply whose related identity
\* is H
ReplyFor(smp, H) ==
  /\ ~smp.request
  /\ read_header(smp).gid.guid = H.writer_guid
  /\ read_header(smp).sn = H.sequence_number

CreateFails ==
  /\ result'.op \in {"create_publisher", "create_subscriber"}
  /\ result'.rc = RET_ERROR
  /\ result' # result \/ engine' # engine

\* C32: a Publisher::create or Subscriber::create that fails releases every
\* engine resource it had created: the engine holds after the call what it
\* held before.
C32_StagedTeardown ==
  [][CreateFails => engine' = engine /\ heap' = heap]_vars

\* ---- C33
\* Subscriber::create has just returned for a reader that asked for a
\* filter and got the answer rc from the engine
FilterAnswered(rc) ==
  /\ result'.op = "create_subscriber" /\ result' # result
  /\ result'.log = {rc}
  /\ result'.payload \notin {"type", "topic"}

\* the reader of entity e as the engine holds it
ReaderParts(e) == engine[<<e, "sub">>]

TriggerInWindowUnseen ==
  triggers' = triggers + 1 /\ (\E t \in Threads : pc[t] = "process") =>
    /\ result'.op = "trigger_guard_condition"
    /\ trigger_value[result'.who]
    /\ UNCHANGED coordvars

\* process_wait() leaves the trigger of every guard condition it found
\* active false, whatever calls were made since the wake-up
ResetUnconditional ==
  \A t \in Threads :
    pc[t] = "process" /\ pc'[t] # "process" =>
      \A x \in ActiveGuards(tw[t]) : ~trigger_value'[x]

\* C34: process_wait() resets the trigger of a ready guard condition without
\* test-and-set, so a trigger() made after the engine woke up and before the
\* reset is overwritten; in a reachable execution that trigger() is reported
\* by no wait(): the following wait() times out.
C34_ResetOverwrites ==
  [][TriggerInWindowUnseen /\ ResetUnconditional]_vars

\* two trigger calls were made, the second between the wake-up and the reset
\* of the first wait(); nothing failed; the second wait() asked for the guard
\* condition and has returned TIMEOUT with its entry null
C34_Witness ==
  /\ result.op = "trigger_guard_condition" /\ result.who = "g1"
  /\ triggers = 2 /\ events = 0 /\ waits = 2
  /\ \A t \in Threads : pc[t] = "idle"
  /\ last.ret = RET_TIMEOUT /\ last.arr["gcs"] = <<NULL>>
  /\ ~trigger_value["g1"]

\* ---- C35
\* t's wait() reaches BLOCKED in this step
ReachesBlocked(t) == pc[t] = "pre_block" /\ pc'[t] = "blocked"

\* the five attached lists of w are the five arrays of request r
Mirrors(w, r) == \A k \in KindSet : attached[w][k] = r[k]

\* attach() has found the request different from the lists and has detached
\* in this step
DetachedForRefresh(t) ==
  pc[t] = "attach" /\ pc'[t] # "attach" /\ refresh_attach(tw[t], req[t])

\* C35: whenever a wait() reaches BLOCKED each of the five attached lists
\* equals the caller's array, element by element and in order; when the
\* request differs from the lists, every condition attached before is
\* detached first and none that is not requested stays attached.
C35_ListsMirrorRequest ==
  [][\A t \in Threads :
       /\ ReachesBlocked(t) => Mirrors(tw[t], req[t])
       /\ DetachedForRefresh(t) =>
            /\ attached'[tw[t]] = EmptyLists
            /\ \A c \in Conds : attached_waitset[c] = tw[t] =>
                 attached_waitset'[c] = NULL
    ]_vars

\* ---- C36
\* the endpoint object of entity e has been deleted
Destroyed(e, role) == <<e, role>> \notin heap

\* C36: after Client::finalize() or Service::finalize() has returned, OK or
\* ERROR, the two endpoints are both destroyed or both exist; and a
\* finalize() made again after an ERROR finalizes or deletes no endpoint a
\* second time.
C36_DestroyedAsPair ==
  result.op = "finalize" =>
    /\ Destroyed(result.who, "pub") <=> Destroyed(result.who, "sub")
    /\ result.log = {}

\* ---- C37
\* the samples of history take_next has gone past
Consumed == loaned - (loan_len - loan_next)

\* the positions, in order, of the samples among the first n of history
\* that have valid data and pass the filter
RECURSIVE Deliverable(_)
Deliverable(n) ==
  IF n = 0 THEN <<>>
  ELSE IF history[n].valid /\ history[n].accept
       THEN Append(Deliverable(n - 1), n)
       ELSE Deliverable(n - 1)

\* C37: a take never takes more than max_samples; the samples delivered so
\* far are exactly the loaned samples gone past that have valid data and
\* pass the filter, each once and in loan order; 0 <= loan_next <= loan_len
\* between calls; and a loan with no sample left is returned before the
\* call returns.
C37_TakeOnceInOrder ==
  /\ Len(took.taken) <= took.max_samples
  /\ delivered = Deliverable(Consumed)
  /\ 0 <= loan_next /\ loan_next <= loan_len
  /\ loan_len > 0 => loan_next < loan_len

\* a take of two samples went past a sample that is not delivered and
\* stopped in a loan that has a sample left
C37_Witness ==
  /\ took.op = "take_next" /\ took.max_samples = 2 /\ took.rc = RET_OK
  /\ Len(took.taken) = 2 /\ Consumed > Len(delivered)
  /\ loan_len > 0 /\ loan_next < loan_len

\* ---- C38
\* the kinds of source that are read through a subscriber
ReaderKinds == {"subs", "cls", "srvs"}

\* t's engine wait ends in this step without any condition active
TimesOut(t) ==
  pc[t] = "blocked" /\ pc'[t] = "process" /\ wait_rc'[t] = RET_TIMEOUT

\* a wait() does not sit out its timeout while a source it was asked for
\* has loaned or loanable data
WokenByData(t) ==
  TimesOut(t) =>
    \A k \in ReaderKinds : \A i \in 1..Len(req[t][k]) :
      alive[req[t][k][i]] => ~has_data[req[t][k][i]]

\* the entry of a source is null on return only if the source had no data
\* when process_wait() ran
NulledWithoutData(t) ==
  Returns(t) /\ pc[t] = "process" =>
    \A k \in ReaderKinds : \A i \in 1..Len(req[t][k]) :
      (last'.arr[k][i] = NULL /\ alive[req[t][k][i]]) => ~has_data[req[t][k][i]]

\* C38: a wait() that includes a source with loaned samples left unconsumed
\* (or with loanable data) returns without waiting for new data and leaves
\* the entry of that source non-null; an entry is nulled only when the
\* source has neither loaned nor loanable data.
C38_NoLostWakeup ==
  [][\A t \in Threads : WokenByData(t) /\ NulledWithoutData(t)]_vars

\* a loan that is not consumed
UnconsumedLoan == loan_len > 0 /\ loan_next < loan_len

\* the subscriber's side: while a loan is not consumed the flag of the
\* status condition is set, unless a set_data_available call has failed
LoanKeepsFlag ==
  [][(UnconsumedLoan' /\ ~data_available') => (took'.rc # RET_OK \/ ~data_available)]_vars

\* ---- C39
\* the timeout is outside what DDS_Duration_t holds
OutOfRange(tmo) ==
  ~tmo.null /\ (Greater(tmo.sec, INT32_MAX) \/ Greater(tmo.nsec, UINT32_MAX))

\* what wait() does with its timeout between attach() and the engine call:
\* out of range it does not enter BLOCKED and calls the engine with nothing;
\* in range the engine is given the same seconds and nanoseconds; a null
\* timeout is an infinite wait
TimeoutConverted(t) ==
  pc[t] = "pre_block" /\ pc'[t] # "pre_block" /\ events' = events =>
    LET tmo == wait_timeout'[t]
        d == wait_duration'[t]
    IN IF tmo.null THEN pc'[t] = "blocked" /\ d = DDS_DURATION_INFINITE
       ELSE IF OutOfRange(tmo)
       THEN pc'[t] = "exit_detach" /\ state'[tw[t]] # BLOCKED /\ ~d.given
       ELSE /\ pc'[t] = "blocked" /\ d.given
            /\ DDS_Long_value(d.sec) = tmo.sec
            /\ DDS_UnsignedLong_value(d.nanosec) = tmo.nsec

\* the wait() called with a timeout out of range returns ERROR with every
\* condition detached and the state FREE (no engine call has failed)
RejectedReturn(t) ==
  Returns(t) /\ pc[t] = "exit_detach" /\ events = 0 /\ OutOfRange(wait_timeout[t]) =>
    /\ last'.ret = RET_ERROR
    /\ attached'[tw[t]] = EmptyLists /\ native'[tw[t]] = {}
    /\ state'[tw[t]] = FREE

\* C39: wait() with a timeout whose seconds exceed 2^31-1 or whose
\* nanoseconds exceed 2^32-1 returns ERROR without entering BLOCKED, with
\* all conditions detached and the state FREE on return; inside those bounds
\* the engine is given exactly the same seconds and nanoseconds; a null
\* timeout means an infinite wait.
C39_TimeoutRange ==
  [][\A t \in Threads : TimeoutConverted(t) /\ RejectedReturn(t)]_vars

\* the conversion alone
C39_Conversion == [][\A t \in Threads : TimeoutConverted(t)]_vars


\* ------------------------------------------ invalidate() of an unlisted condition
\* condition c is the condition of an element of one of the five attached
\* lists of wait-set w
ListedIn(w, c) ==
  \E k \in KindSet : c \in {CondOf(k, x) : x \in Range(attached[w][k])}

\* thread t runs invalidate(C) up to its first return, unlock or block, on a
\* wait-set whose five attached lists do not hold C
InvalidateNotListed(t) ==
  /\ pc[t] = "inv_enter" /\ pc'[t] # "inv_enter"
  /\ ~ListedIn(inv_ws[t], inv_c[t])

\* C40: invalidate(C) on a wait-set that lists C in none of its five attached
\* lists returns OK at once, whatever the wait-set's state: it does not block
\* on the state condition and leaves the state, the attached lists and the
\* event cache as they were
C40_NotListedReturnsOk ==
  [][\A t \in Threads :
       InvalidateNotListed(t) =>
         /\ inv_ret'[t] = RET_OK
         /\ pc'[t] = AfterInvalidate(t)
         /\ UNCHANGED <<state, attached, attached_events_cache, notified>>]_vars

\* an invalidate() of an unlisted condition has returned OK while a wait() is
\* inside the engine on that wait-set
C40_Witness ==
  \E t \in Threads :
    /\ pc[t] \in {"attach_locked", "fin_delete"}
    /\ inv_ret[t] = RET_OK
    /\ state[inv_ws[t]] = BLOCKED
    /\ ~ListedIn(inv_ws[t], inv_c[t])
    /\ \E u \in Threads \ {t} : pc[u] = "blocked" /\ tw[u] = inv_ws[t]

\* the same while that wait() is on its way out
C40_WhileReleasing ==
  \E t \in Threads :
    /\ pc[t] \in {"attach_locked", "fin_delete"}
    /\ inv_ret[t] = RET_OK
    /\ state[inv_ws[t]] = RELEASING
    /\ ~ListedIn(inv_ws[t], inv_c[t])

====
